---- MODULE Spec2Model ----
(***************************************************************************)
(* Model of the day-planner backend: the task store and its HTTP handlers  *)
(* (src/src/models/Task.ts, src/src/routes/tasks.ts), the pagination       *)
(* helpers (src/unnamed/part_002), the user store in its two versions      *)
(* (src/src/models/User.ts and src/unnamed/part_000) and the token         *)
(* middleware (src/src/middleware/auth.ts).                                *)
(*                                                                         *)
(* Every store statement (one db.execute) is one atomic step; a handler    *)
(* that awaits several statements is a process that other handlers can     *)
(* interleave with between its statements.                                 *)
(*                                                                         *)
(* JavaScript values are written as strings: "undefined", "null", "true",  *)
(* "false", "" and the other strings of each field's input set.  Times     *)
(* (ISO-8601 strings in the code) are integers of the model clock, dates   *)
(* are strings ordered by DateRank.                                        *)
(***************************************************************************)
EXTENDS Integers, Sequences, FiniteSets, TLC

VARIABLES
  tasks,       \* the tasks table: its rows, in rowid (insertion) order
  creator,     \* for each task id ever created, the requester whose request created it
  nextTaskId,  \* number of uuids drawn for tasks so far
  clock,       \* the server clock (new Date())
  pc,          \* where each request handler stands
  req,         \* the request each handler is serving, with its locals
  last,        \* what the latest step returned or responded (NoResp if nothing)
  users,       \* the users table: its rows
  nextUserId,  \* number of uuids drawn for users so far
  issued,      \* the session tokens generateToken has signed so far
  userModel,   \* which version of the user model the server runs:
               \* "User.ts" (src/src/models/User.ts) or "part_000" (src/unnamed/part_000)
  processEnv,  \* process.env: the configuration the process was started with
  server       \* the process: "starting", "running" or "failed"

taskVars == <<tasks, creator, nextTaskId>>
userVars == <<users, nextUserId, issued, userModel>>
configVars == <<processEnv, server>>
vars == <<tasks, creator, nextTaskId, clock, pc, req, last, users, nextUserId, issued,
          userModel, processEnv, server>>

----------------------------------------------------------------------------
(* Bounds *)

MaxClock == 1
MaxTasks == 2
MaxUsers == 2
MaxDays == 7
MaxTokens == 1
MaxPage == 4
MaxPageSize == 4
MaxTotal == 9

Procs == {"p1", "p2"}

----------------------------------------------------------------------------
(* JavaScript values *)

UNDEF == "undefined"
NULL == "null"

\* Number(undefined) and Number("abc")
NaN == -1000000

\* x is falsy for ||, ! and if(): undefined, null, "" and false
Falsy(x) == x \in {UNDEF, NULL, "", "false"}

\* process.env of a deployment that sets JWT_SECRET and leaves JWT_EXPIRES_IN
\* unset
DefaultProcessEnv == [JWT_SECRET |-> "secret", JWT_EXPIRES_IN |-> UNDEF]

\* the same for a number: 0 and NaN
NumFalsy(n) == n = 0 \/ n = NaN

\* a || b
JsOr(a, b) == IF Falsy(a) THEN b ELSE a
NumOr(n, d) == IF NumFalsy(n) THEN d ELSE n

\* x ? .. : .. of a boolean input written "true" / "false"
Truthy(x) == x = "true"

Max(a, b) == IF a >= b THEN a ELSE b
Min(a, b) == IF a <= b THEN a ELSE b

Range(s) == {s[i] : i \in 1..Len(s)}

----------------------------------------------------------------------------
(* Orders of the column values, as SQLite compares them *)

\* ISO-8601 date strings in lexicographic order; NULL sorts before every value
DateRank(d) == CASE d = NULL -> 0
                 [] d = "2024-01-01" -> 1
                 [] d = "2024-06-01" -> 2

TextRank(t) == CASE t = NULL -> 0
                 [] t = "" -> 1
                 [] t = "a" -> 2
                 [] t = "b" -> 3
                 [] t = "d" -> 4
                 [] t = "high" -> 5
                 [] t = "low" -> 6
                 [] t = "medium" -> 7

----------------------------------------------------------------------------
(* The task store: src/src/models/Task.ts.  The rows carry the columns the  *)
(* INSERT of createTask names; no statement of Task.ts reads or writes an   *)
(* owner column.                                                            *)

NoTask == [none |-> TRUE]

mapRowToTask(row) ==
  [ id |-> row.id,
    title |-> row.title,
    description |-> row.description,
    completed |-> (row.completed = 1),
    priority |-> row.priority,
    dueDate |-> row.dueDate,
    createdAt |-> row.createdAt,
    updatedAt |-> row.updatedAt ]

HasRow(T, id) == \E i \in 1..Len(T) : T[i].id = id

RowOf(T, id) == T[CHOOSE i \in 1..Len(T) : T[i].id = id]

\* SELECT * FROM tasks WHERE id = ?
findTaskById(T, id) == IF HasRow(T, id) THEN mapRowToTask(RowOf(T, id)) ELSE NoTask

\* the row createTask inserts
createTaskRow(id, taskData, now) ==
  [ id |-> id,
    title |-> taskData.title,
    description |-> JsOr(taskData.description, NULL),
    completed |-> 0,
    priority |-> JsOr(taskData.priority, "medium"),
    dueDate |-> JsOr(taskData.dueDate, NULL),
    createdAt |-> now,
    updatedAt |-> now ]

\* the object createTask returns, built from its input and not re-read
createTaskResult(id, taskData, now) ==
  [ id |-> id,
    title |-> taskData.title,
    description |-> taskData.description,
    completed |-> FALSE,
    priority |-> JsOr(taskData.priority, "medium"),
    dueDate |-> taskData.dueDate,
    createdAt |-> now,
    updatedAt |-> now ]

\* a WHERE clause that adds the completed test only for a truthy filter value
MatchesTruthyCompleted(row, filters) ==
  /\ (Truthy(filters.completed) => row.completed = 1)
  /\ (~Falsy(filters.priority) => row.priority = filters.priority)
  /\ (~Falsy(filters.dueDateFrom) =>
        row.dueDate # NULL /\ DateRank(row.dueDate) >= DateRank(filters.dueDateFrom))
  /\ (~Falsy(filters.dueDateTo) =>
        row.dueDate # NULL /\ DateRank(row.dueDate) <= DateRank(filters.dueDateTo))

\* the WHERE clause findAllTasks and getTaskCount build: WHERE 1=1 AND ...
MatchesFilters(row, filters) ==
  /\ (filters.completed # UNDEF =>
        row.completed = (IF Truthy(filters.completed) THEN 1 ELSE 0))
  /\ (~Falsy(filters.priority) => row.priority = filters.priority)
  /\ (~Falsy(filters.dueDateFrom) =>
        row.dueDate # NULL /\ DateRank(row.dueDate) >= DateRank(filters.dueDateFrom))
  /\ (~Falsy(filters.dueDateTo) =>
        row.dueDate # NULL /\ DateRank(row.dueDate) <= DateRank(filters.dueDateTo))

RECURSIVE SelectRows(_, _)
SelectRows(T, filters) ==
  IF T = <<>> THEN <<>>
  ELSE IF MatchesFilters(Head(T), filters)
       THEN <<Head(T)>> \o SelectRows(Tail(T), filters)
       ELSE SelectRows(Tail(T), filters)

\* a count that leaves the WHERE clause out
countAllTasks(T, filters) == Len(T)

\* SELECT COUNT(*) ... ; row?.count || 0
getTaskCount(T, filters) == Len(SelectRows(T, filters))

----------------------------------------------------------------------------
(* Pagination helpers: src/unnamed/part_002 *)

DEFAULT_PAGE == 1
DEFAULT_LIMIT == 20
MAX_LIMIT == 100

\* a normalisation that leaves out Math.max(1, ...) for the page
normalizeWithoutFloor(query) ==
  [ page |-> NumOr(query.page, DEFAULT_PAGE),
    limit |-> Min(Max(1, NumOr(query.limit, DEFAULT_LIMIT)), MAX_LIMIT),
    sortBy |-> query.sortBy,
    sortOrder |-> IF query.sortOrder = "desc" THEN "desc" ELSE "asc",
    maxLimit |-> MAX_LIMIT ]

normalizePaginationQuery(query) ==
  [ page |-> Max(1, NumOr(query.page, DEFAULT_PAGE)),
    limit |-> Min(Max(1, NumOr(query.limit, DEFAULT_LIMIT)), MAX_LIMIT),
    sortBy |-> query.sortBy,
    sortOrder |-> IF query.sortOrder = "desc" THEN "desc" ELSE "asc",
    maxLimit |-> MAX_LIMIT ]

\* Math.floor in place of Math.ceil
FloorDiv(total, limit) == total \div limit

\* Math.ceil(total / limit) for total >= 0, limit >= 1
CeilDiv(total, limit) == (total + limit - 1) \div limit

createPaginationMeta(page, limit, total) ==
  LET totalPages == CeilDiv(total, limit)
      hasNextPage == page < totalPages
      hasPrevPage == page > 1
  IN [ page |-> page,
       limit |-> limit,
       total |-> total,
       totalPages |-> totalPages,
       hasNextPage |-> hasNextPage,
       hasPrevPage |-> hasPrevPage,
       nextPage |-> IF hasNextPage THEN page + 1 ELSE NaN,
       prevPage |-> IF hasPrevPage THEN page - 1 ELSE NaN ]

createPaginatedResponse(items, pagination, total) ==
  [ items |-> items,
    pagination |-> createPaginationMeta(pagination.page, pagination.limit, total) ]

\* an offset that skips the requested page as well
offsetPastPage(page, limit) == page * limit

calculateOffset(page, limit) == (page - 1) * limit

parseSortParams(sortBy, sortOrder, allowedSortFields) ==
  [ sortBy |-> IF Len(allowedSortFields) > 0 /\ ~Falsy(sortBy)
                  /\ sortBy \in Range(allowedSortFields)
               THEN sortBy
               ELSE IF Len(allowedSortFields) > 0 THEN allowedSortFields[1]
                    ELSE "createdAt",
    sortOrder |-> IF sortOrder = "desc" THEN "desc" ELSE "asc" ]

----------------------------------------------------------------------------
(* findAllTasks: filter, ORDER BY, LIMIT / OFFSET *)

allowedSortFields ==
  <<"title", "completed", "priority", "dueDate", "createdAt", "updatedAt">>

\* the value ORDER BY compares, as a number that orders as SQLite orders it
SortKey(row, col) ==
  CASE col = "title" -> TextRank(row.title)
    [] col = "completed" -> row.completed
    [] col = "priority" -> TextRank(row.priority)
    [] col = "dueDate" -> DateRank(row.dueDate)
    [] col = "createdAt" -> row.createdAt
    [] col = "updatedAt" -> row.updatedAt

\* r goes before s under ORDER BY col dir (rows that compare equal keep scan order)
Before(r, s, col, dir) ==
  IF dir = "desc" THEN SortKey(r, col) > SortKey(s, col)
  ELSE SortKey(r, col) < SortKey(s, col)

RECURSIVE InsertSorted(_, _, _, _)
InsertSorted(r, S, col, dir) ==
  IF S = <<>> THEN <<r>>
  ELSE IF Before(r, Head(S), col, dir) THEN <<r>> \o S
       ELSE <<Head(S)>> \o InsertSorted(r, Tail(S), col, dir)

RECURSIVE OrderBy(_, _, _)
OrderBy(S, col, dir) ==
  IF S = <<>> THEN <<>>
  ELSE InsertSorted(S[Len(S)], OrderBy(SubSeq(S, 1, Len(S) - 1), col, dir), col, dir)

\* LIMIT limit OFFSET offset
LimitOffset(S, limit, offset) ==
  SubSeq(S, offset + 1, Min(Len(S), offset + limit))

MapRows(S) == [i \in 1..Len(S) |-> mapRowToTask(S[i])]

findAllTasks(T, filters) ==
  LET sort == parseSortParams(filters.sortBy, filters.sortOrder, allowedSortFields)
      ordered == OrderBy(SelectRows(T, filters), sort.sortBy, sort.sortOrder)
  IN MapRows(IF ~NumFalsy(filters.limit)
             THEN LimitOffset(ordered, filters.limit,
                              calculateOffset(NumOr(filters.page, 1), filters.limit))
             ELSE ordered)

----------------------------------------------------------------------------
(* updateTask, deleteTask: the statements they run *)

\* an updateTask without the updates.length === 0 return
HasUpdatesAlways(updateData) == TRUE

HasUpdates(updateData) ==
  \/ updateData.title # UNDEF
  \/ updateData.description # UNDEF
  \/ updateData.completed # UNDEF
  \/ updateData.priority # UNDEF
  \/ updateData.dueDate # UNDEF

\* an UPDATE that sets updatedAt alone
UpdatedRowTouchOnly(row, updateData, now) == [row EXCEPT !.updatedAt = now]

\* UPDATE tasks SET <the supplied fields>, updatedAt = ? on one row
UpdatedRow(row, updateData, now) ==
  [ id |-> row.id,
    title |-> IF updateData.title # UNDEF THEN updateData.title ELSE row.title,
    description |-> IF updateData.description # UNDEF THEN updateData.description
                    ELSE row.description,
    completed |-> IF updateData.completed # UNDEF
                  THEN (IF Truthy(updateData.completed) THEN 1 ELSE 0)
                  ELSE row.completed,
    priority |-> IF updateData.priority # UNDEF THEN updateData.priority
                 ELSE row.priority,
    dueDate |-> IF updateData.dueDate # UNDEF THEN updateData.dueDate ELSE row.dueDate,
    createdAt |-> row.createdAt,
    updatedAt |-> now ]

\* the UPDATE without its WHERE clause
UpdateEveryRow(T, id, updateData, now) ==
  [i \in 1..Len(T) |-> UpdatedRow(T[i], updateData, now)]

\* UPDATE tasks SET ... WHERE id = ?
UpdateRows(T, id, updateData, now) ==
  [i \in 1..Len(T) |-> IF T[i].id = id THEN UpdatedRow(T[i], updateData, now) ELSE T[i]]

RECURSIVE DeleteRows(_, _)
\* DELETE FROM tasks WHERE id = ?
DeleteRows(T, id) ==
  IF T = <<>> THEN <<>>
  ELSE IF Head(T).id = id THEN DeleteRows(Tail(T), id)
       ELSE <<Head(T)>> \o DeleteRows(Tail(T), id)

\* a DELETE that reports one changed row whatever it removed
DeleteChangesOne(T, id) == 1

\* result.changes of that DELETE
DeleteChanges(T, id) == Len(T) - Len(DeleteRows(T, id))

----------------------------------------------------------------------------
(* Request handlers: src/src/routes/tasks.ts.  `who` is the identity of the  *)
(* client that sent the request; no task route reads it.                    *)

NoReq == [op |-> "none"]
NoResp == [op |-> "none"]

\* handler p serves no request, and the process is up to take one
Idle(p) == pc[p] = "idle" /\ server = "running"

TaskIdInputs == 1..MaxTasks

Finish(p, resp) ==
  /\ pc' = [pc EXCEPT ![p] = "idle"]
  /\ req' = [req EXCEPT ![p] = NoReq]
  /\ last' = resp

\* POST /api/tasks
PostTask(p, E) ==
  /\ Idle(p)
  /\ nextTaskId < MaxTasks
  /\ \E who \in E.requesters, taskData \in E.createInputs :
       LET id == nextTaskId + 1 IN
       /\ tasks' = Append(tasks, createTaskRow(id, taskData, clock))
       /\ creator' = [i \in DOMAIN creator \cup {id} |->
                        IF i = id THEN who ELSE creator[i]]
       /\ nextTaskId' = id
       /\ Finish(p, [op |-> "create", who |-> who, id |-> id, status |-> 201,
                     task |-> createTaskResult(id, taskData, clock)])
  /\ UNCHANGED <<configVars, clock, userVars>>

\* GET /api/tasks/:id
GetTask(p, E) ==
  /\ Idle(p)
  /\ \E who \in E.requesters, id \in TaskIdInputs :
       LET task == findTaskById(tasks, id) IN
       Finish(p, [op |-> "getById", who |-> who, id |-> id,
                  status |-> IF task = NoTask THEN 404 ELSE 200, task |-> task])
  /\ UNCHANGED <<configVars, taskVars, clock, userVars>>

\* DELETE /api/tasks/:id
DeleteTask(p, E) ==
  /\ Idle(p)
  /\ \E who \in E.requesters, id \in TaskIdInputs :
       LET deleted == DeleteChanges(tasks, id) > 0 IN
       /\ tasks' = DeleteRows(tasks, id)
       /\ Finish(p, [op |-> "delete", who |-> who, id |-> id,
                     status |-> IF deleted THEN 200 ELSE 404, deleted |-> deleted])
  /\ UNCHANGED <<configVars, creator, nextTaskId, clock, userVars>>

\* GET /api/tasks, first statement: findAllTasks({...filters, ...pagination})
ListTasks(p, E) ==
  /\ Idle(p)
  /\ \E who \in E.requesters, query \in E.listQueries :
       LET pagination == normalizePaginationQuery(query)
           filters == [query EXCEPT !.page = pagination.page,
                                    !.limit = pagination.limit,
                                    !.sortBy = pagination.sortBy,
                                    !.sortOrder = pagination.sortOrder]
           items == findAllTasks(tasks, filters)
       IN /\ pc' = [pc EXCEPT ![p] = "list_count"]
          /\ req' = [req EXCEPT ![p] = [op |-> "list", who |-> who, query |-> query,
                                        pagination |-> pagination, items |-> items]]
          /\ last' = [op |-> "findAllTasks", who |-> who, filters |-> filters,
                      items |-> items]
  /\ UNCHANGED <<configVars, taskVars, clock, userVars>>

\* GET /api/tasks, second statement: getTaskCount(filters), then the response
ListCount(p) ==
  /\ pc[p] = "list_count"
  /\ LET total == getTaskCount(tasks, req[p].query)
         data == createPaginatedResponse(req[p].items, req[p].pagination, total)
     IN Finish(p, [op |-> "list", who |-> req[p].who, status |-> 200,
                   query |-> req[p].query, items |-> data.items,
                   total |-> total, pagination |-> data.pagination])
  /\ UNCHANGED <<configVars, taskVars, clock, userVars>>

\* what the route answers when updateTask returned null: PUT throws the 404 error;
\* PATCH toggle reads task!.completed of null, a TypeError the errorHandler turns
\* into 500
NullUpdate(op, who, id) ==
  [op |-> op, who |-> who, id |-> id,
   status |-> IF op = "toggle" THEN 500 ELSE 404, task |-> NoTask]

\* updateTask up to its UPDATE statement: the read of the existing task, the
\* early returns, and the parameters (the new updatedAt is taken here)
UpdateTaskRead(p, op, who, id, updateData) ==
  LET existingTask == findTaskById(tasks, id) IN
  IF existingTask = NoTask
  THEN Finish(p, NullUpdate(op, who, id))
  ELSE IF ~HasUpdates(updateData)
  THEN Finish(p, [op |-> op, who |-> who, id |-> id, status |-> 200,
                  task |-> existingTask])
  ELSE /\ pc' = [pc EXCEPT ![p] = "upd_write"]
       /\ req' = [req EXCEPT ![p] = [op |-> op, who |-> who, id |-> id,
                                     updateData |-> updateData, now |-> clock]]
       /\ last' = NoResp

\* PUT /api/tasks/:id, up to the UPDATE statement
PutTask(p, E) ==
  /\ Idle(p)
  /\ \E who \in E.requesters, id \in TaskIdInputs, updateData \in E.updateInputs :
       UpdateTaskRead(p, "update", who, id, updateData)
  /\ UNCHANGED <<configVars, taskVars, clock, userVars>>

NoUpdate ==
  [title |-> UNDEF, description |-> UNDEF, completed |-> UNDEF,
   priority |-> UNDEF, dueDate |-> UNDEF]

\* PATCH /api/tasks/:id/toggle, its own read of the task
ToggleTask(p, E) ==
  /\ Idle(p)
  /\ \E who \in E.requesters, id \in TaskIdInputs :
       LET existingTask == findTaskById(tasks, id) IN
       IF existingTask = NoTask
       THEN Finish(p, [op |-> "toggle", who |-> who, id |-> id, status |-> 404,
                       task |-> NoTask])
       ELSE /\ pc' = [pc EXCEPT ![p] = "upd_read"]
            /\ req' = [req EXCEPT ![p] =
                 [op |-> "toggle", who |-> who, id |-> id,
                  updateData |-> [NoUpdate EXCEPT !.completed =
                      IF existingTask.completed THEN "false" ELSE "true"]]]
            /\ last' = NoResp
  /\ UNCHANGED <<configVars, taskVars, clock, userVars>>

\* the toggle's call of updateTask, up to the UPDATE statement
ToggleUpdateRead(p) ==
  /\ pc[p] = "upd_read"
  /\ UpdateTaskRead(p, req[p].op, req[p].who, req[p].id, req[p].updateData)
  /\ UNCHANGED <<configVars, taskVars, clock, userVars>>

\* updateTask: UPDATE tasks SET ... WHERE id = ?
UpdateWrite(p) ==
  /\ pc[p] = "upd_write"
  /\ tasks' = UpdateRows(tasks, req[p].id, req[p].updateData, req[p].now)
  /\ pc' = [pc EXCEPT ![p] = "upd_reread"]
  /\ last' = NoResp
  /\ UNCHANGED <<configVars, creator, nextTaskId, clock, req, userVars>>

\* updateTask: return findTaskById(id), and the route's answer
UpdateReread(p) ==
  /\ pc[p] = "upd_reread"
  /\ LET task == findTaskById(tasks, req[p].id) IN
     Finish(p, IF task = NoTask
               THEN NullUpdate(req[p].op, req[p].who, req[p].id)
               ELSE [op |-> req[p].op, who |-> req[p].who, id |-> req[p].id,
                     status |-> 200, task |-> task])
  /\ UNCHANGED <<configVars, taskVars, clock, userVars>>

\* time passes
Tick(E) ==
  /\ \E d \in E.tickSteps :
       /\ clock + d <= E.maxClock
       /\ clock' = clock + d
  /\ last' = NoResp
  /\ UNCHANGED <<configVars, taskVars, pc, req, userVars>>

----------------------------------------------------------------------------
(* The task specification: two clients A and B, two handlers in flight *)

TaskCreateInputs ==
  [title : {"a"}, description : {UNDEF}, priority : {UNDEF}, dueDate : {UNDEF}]

TaskUpdateInputs ==
  {[NoUpdate EXCEPT !.title = "b"], NoUpdate}

TaskListQueries ==
  [page : {1}, limit : {20}, sortBy : {"createdAt"}, sortOrder : {"desc"},
   completed : {UNDEF, "true"}, priority : {UNDEF},
   dueDateFrom : {UNDEF}, dueDateTo : {UNDEF}]

TaskEnv ==
  [requesters |-> {"A", "B"}, procs |-> {"p1"}, maxClock |-> MaxClock, tickSteps |-> {1},
   createInputs |-> TaskCreateInputs,
   updateInputs |-> TaskUpdateInputs, listQueries |-> TaskListQueries]

InitTasks ==
  /\ tasks = <<>>
  /\ creator = <<>>
  /\ nextTaskId = 0
  /\ clock = 0
  /\ pc = [p \in Procs |-> "idle"]
  /\ req = [p \in Procs |-> NoReq]
  /\ last = NoResp
  /\ users = {}
  /\ nextUserId = 0
  /\ issued = {}
  /\ userModel = "User.ts"
  /\ processEnv = DefaultProcessEnv
  /\ server = "running"

NextTasks ==
  \/ \E p \in TaskEnv.procs : PostTask(p, TaskEnv)
  \/ \E p \in TaskEnv.procs : GetTask(p, TaskEnv)
  \/ \E p \in TaskEnv.procs : DeleteTask(p, TaskEnv)
  \/ \E p \in TaskEnv.procs : ListTasks(p, TaskEnv)
  \/ \E p \in TaskEnv.procs : ListCount(p)
  \/ \E p \in TaskEnv.procs : PutTask(p, TaskEnv)
  \/ \E p \in TaskEnv.procs : ToggleTask(p, TaskEnv)
  \/ \E p \in TaskEnv.procs : ToggleUpdateRead(p)
  \/ \E p \in TaskEnv.procs : UpdateWrite(p)
  \/ \E p \in TaskEnv.procs : UpdateReread(p)
  \/ Tick(TaskEnv)

SpecTasks == InitTasks /\ [][NextTasks]_vars

----------------------------------------------------------------------------
(* Claims about the owner of a task *)

\* the task id was created by a requester other than who
OwnedByOther(id, who) == id \in DOMAIN creator /\ creator[id] # who

\* C1: list, count and getById return or count only tasks whose owner is the
\* requester: a task created by user A is never returned to, or counted for, a
\* different user B.
C1_ReadsOnlyOwnTasks ==
  /\ (last.op = "getById" /\ last.status = 200 => ~OwnedByOther(last.id, last.who))
  /\ (last.op = "findAllTasks" =>
        \A i \in 1..Len(last.items) : ~OwnedByOther(last.items[i].id, last.who))
  /\ (last.op = "list" =>
        \A i \in 1..Len(tasks) :
          MatchesFilters(tasks[i], last.query) => ~OwnedByOther(tasks[i].id, last.who))

\* a read by B that returns a task A created
C1_CrossOwnerRead ==
  /\ last.op = "getById"
  /\ last.status = 200
  /\ OwnedByOther(last.id, last.who)

\* C2: update, toggle and delete issued by user B on a task owned by a different
\* user A answer not-found (404), as for an id that does not exist, and leave the
\* task unchanged in the store.
C2_CrossOwnerWriteNotFound ==
  [][ /\ (last' # last /\ last'.op \in {"update", "toggle", "delete"}
            /\ OwnedByOther(last'.id, last'.who)
          => last'.status = 404 /\ tasks' = tasks)
      /\ \A p \in Procs :
           (pc[p] = "upd_write" /\ pc'[p] = "upd_reread"
              /\ OwnedByOther(req[p].id, req[p].who)
            => tasks' = tasks) ]_vars

\* B has deleted a task A created
C2_CrossOwnerDelete ==
  /\ last.op = "delete"
  /\ last.status = 200
  /\ OwnedByOther(last.id, last.who)

----------------------------------------------------------------------------
(* The user store: src/src/models/User.ts and src/unnamed/part_000, over    *)
(* the users table of src/src/database/init.ts.                             *)

NoUser == [none |-> TRUE]

mapRowToUser(row) ==
  [ id |-> row.id,
    googleId |-> row.googleId,
    email |-> row.email,
    name |-> row.name,
    picture |-> row.picture,
    verified |-> (row.verified = 1),
    createdAt |-> row.createdAt,
    updatedAt |-> row.updatedAt ]

UserIds(U) == {u.id : u \in U}

\* SELECT * FROM users WHERE id = ?  (id is the primary key)
findUserById(U, id) ==
  IF \E u \in U : u.id = id
  THEN mapRowToUser(CHOOSE u \in U : u.id = id)
  ELSE NoUser

\* a lookup by googleId that never finds a user
findNoUser(U, googleId) == NoUser

\* SELECT * FROM users WHERE googleId = ?  (googleId is UNIQUE)
findUserByGoogleId(U, googleId) ==
  IF \E u \in U : u.googleId = googleId
  THEN mapRowToUser(CHOOSE u \in U : u.googleId = googleId)
  ELSE NoUser

\* SELECT * FROM users WHERE email = ?  (email is UNIQUE)
findUserByEmail(U, email) ==
  IF \E u \in U : u.email = email
  THEN mapRowToUser(CHOOSE u \in U : u.email = email)
  ELSE NoUser

\* the row createUser inserts: User.ts binds googleId as given, part_000 binds
\* googleId || null
createUserRow(model, id, userData, now) ==
  [ id |-> id,
    googleId |-> IF model = "User.ts" THEN userData.googleId
                 ELSE JsOr(userData.googleId, NULL),
    email |-> userData.email,
    name |-> userData.name,
    picture |-> JsOr(userData.picture, NULL),
    verified |-> IF Truthy(userData.verified) THEN 1 ELSE 0,
    createdAt |-> now,
    updatedAt |-> now ]

\* the object createUser returns, built from its input and not re-read
createUserResult(model, id, userData, now) ==
  [ id |-> id,
    googleId |-> userData.googleId,
    email |-> userData.email,
    name |-> userData.name,
    picture |-> IF model = "User.ts" THEN JsOr(userData.picture, NULL)
                ELSE userData.picture,
    verified |-> Truthy(userData.verified),
    createdAt |-> now,
    updatedAt |-> now ]

\* a users table without constraints
InsertUnchecked(U, row) == "none"

\* what the users table answers to INSERT of row: googleId TEXT UNIQUE NOT NULL,
\* email TEXT UNIQUE NOT NULL
InsertUserError(U, row) ==
  IF row.googleId = NULL THEN "SQLITE_CONSTRAINT_NOTNULL"
  ELSE IF \E u \in U : u.googleId = row.googleId \/ u.email = row.email
       THEN "SQLITE_CONSTRAINT_UNIQUE"
       ELSE "none"

HasUserUpdates(updateData) ==
  \/ updateData.name # UNDEF
  \/ updateData.picture # UNDEF
  \/ updateData.verified # UNDEF

\* UPDATE users SET <name, picture, verified as supplied>, updatedAt = ? on one
\* row; both versions of updateUser build it from these three fields only
UpdatedUserRow(row, updateData, now) ==
  [ id |-> row.id,
    googleId |-> row.googleId,
    email |-> row.email,
    name |-> IF updateData.name # UNDEF THEN updateData.name ELSE row.name,
    picture |-> IF updateData.picture # UNDEF THEN updateData.picture ELSE row.picture,
    verified |-> IF updateData.verified # UNDEF
                 THEN (IF Truthy(updateData.verified) THEN 1 ELSE 0)
                 ELSE row.verified,
    createdAt |-> row.createdAt,
    updatedAt |-> now ]

\* UPDATE users SET ... WHERE id = ?
UpdateUserRows(U, id, updateData, now) ==
  {IF u.id = id THEN UpdatedUserRow(u, updateData, now) ELSE u : u \in U}

\* UPDATE users SET googleId = ?, updatedAt = ? WHERE id = ?  (User.ts, the link)
LinkUserError(U, id, googleId) ==
  IF (\E u \in U : u.id = id) /\ (\E u \in U : u.id # id /\ u.googleId = googleId)
  THEN "SQLITE_CONSTRAINT_UNIQUE"
  ELSE "none"

\* a link whose UPDATE changes no row
LinkNoRows(U, id, googleId, now) == U

LinkUserRows(U, id, googleId, now) ==
  {IF u.id = id THEN [u EXCEPT !.googleId = googleId, !.updatedAt = now] ELSE u : u \in U}

\* DELETE FROM users WHERE id = ?
DeleteUserRows(U, id) == {u \in U : u.id # id}

----------------------------------------------------------------------------
(* Session tokens: src/src/middleware/auth.ts.  The clock counts days.       *)
(* A token is the payload jwt.sign signed, with who signed it: "server" is   *)
(* a signature made with JWT_SECRET.                                        *)

\* expiresIn: process.env.JWT_EXPIRES_IN || '7d'
ExpiresInDays == 7

\* the days in a JWT_EXPIRES_IN of the form '<n>d'
DaysOf(span) == CASE span = "1d" -> 1
                  [] span = "7d" -> 7
                  [] span = "30d" -> 30

\* expiresIn given as the number 7, which jwt.sign reads as seconds: the
\* token expires within the day it is issued
ExpiresInSeconds(env) == 0

\* process.env.JWT_EXPIRES_IN || '7d'
ExpiresIn(env) ==
  IF Falsy(env.JWT_EXPIRES_IN) THEN ExpiresInDays ELSE DaysOf(env.JWT_EXPIRES_IN)

\* jwt.sign and jwt.verify throw when the secret is undefined or empty
SecretSet(env) == ~Falsy(env.JWT_SECRET)

generateToken(user, now) ==
  [ userId |-> user.id, email |-> user.email, iat |-> now,
    exp |-> now + ExpiresIn(processEnv), sig |-> "server" ]

IsJwt(segment) == "sig" \in DOMAIN segment

\* jwt.verify with ignoreExpiration: the signature alone decides
VerifyIgnoringExpiry(token, now) == IsJwt(token) /\ token.sig = "server"

\* jwt.verify(token, JWT_SECRET) returns the payload: the token is a JWT, the
\* signature is the server's, and the clock has not reached exp
VerifyOk(token, now) ==
  /\ SecretSet(processEnv)
  /\ IsJwt(token)
  /\ token.sig = "server"
  /\ now < token.exp

Word(w) == [word |-> w]

\* no Authorization header: req.headers.authorization is undefined
NoHeader == <<>>

\* authHeader && authHeader.split(' ')[1], of a header given as its segments
HeaderToken(header) == IF Len(header) >= 2 THEN header[2] ELSE Word(UNDEF)

\* !token: undefined, or the empty segment of "Bearer " or "Bearer  x"
TokenMissing(token) == ~IsJwt(token) /\ Falsy(token.word)

\* what authenticateToken does with a request: 401, or req.user set and next()
authenticateToken(header, U, now) ==
  LET token == HeaderToken(header)
      user == IF IsJwt(token) THEN findUserById(U, token.userId) ELSE NoUser
  IN IF TokenMissing(token)
     THEN [status |-> 401, message |-> "Access token is required",
           next |-> FALSE, user |-> NoUser]
     ELSE IF ~VerifyOk(token, now)
     THEN [status |-> 401, message |-> "Invalid or expired token",
           next |-> FALSE, user |-> NoUser]
     ELSE IF user = NoUser
     THEN [status |-> 401, message |-> "User not found",
           next |-> FALSE, user |-> NoUser]
     ELSE [status |-> 0, message |-> "", next |-> TRUE, user |-> user]

----------------------------------------------------------------------------
(* findOrCreateUserByGoogle statement by statement, called on its own (op    *)
(* "resolve") or by authenticateGoogle for POST /api/auth/google (op         *)
(* "login"), which then calls generateToken.  A request record keeps the     *)
(* locals: profile, branch (which lookup matched), matched (the id of the    *)
(* user the lookup found, 0 if none), user (the object it found), and        *)
(* before, the users table as it was when the call began.                    *)

UserIdInputs(E) == 1..E.maxUsers

\* an id generator that hands out the same id again
uuidRepeated(drawn) == 1

\* const id = uuidv4(): an id no user had before, the count of ids drawn so
\* far plus one
uuidv4(drawn) == drawn + 1

NoUserUpdate == [name |-> UNDEF, picture |-> UNDEF, verified |-> UNDEF]

\* the end of findOrCreateUserByGoogle: it returned result, or threw thrown
\* (thrown is "none" if it returned).  Called on its own that is the outcome
\* (status 0: no HTTP response).  In authenticateGoogle generateToken follows;
\* generateToken(null) throws a TypeError, jwt.sign throws without a secret,
\* and every error leaves as
\* 'Google authentication failed', which the route answers with 401
LoginFinish(p, r, result, thrown) ==
  LET ok == r.op = "login" /\ thrown = "none" /\ result # NoUser
              /\ SecretSet(processEnv)
      token == IF ok THEN generateToken(result, clock) ELSE Word(UNDEF)
  IN /\ issued' = IF ok THEN issued \cup {token} ELSE issued
     /\ Finish(p, [op |-> r.op, proc |-> p, profile |-> r.profile,
                   before |-> r.before,
                   branch |-> r.branch, matched |-> r.matched, result |-> result,
                   thrown |-> thrown,
                   status |-> IF r.op # "login" THEN 0 ELSE IF ok THEN 200 ELSE 401,
                   token |-> token])

\* first statement: findUserByGoogleId(googleProfile.id)
LoginStart(p, E) ==
  /\ Idle(p)
  /\ \E profile \in E.profiles :
       LET user == findUserByGoogleId(users, profile.id)
           r == [op |-> E.entry, profile |-> profile, before |-> users,
                 branch |-> IF user # NoUser THEN "googleId" ELSE "none",
                 matched |-> IF user # NoUser THEN user.id ELSE 0, user |-> user]
       IN IF user = NoUser
          THEN /\ pc' = [pc EXCEPT ![p] = "login_email"]
               /\ req' = [req EXCEPT ![p] = r]
               /\ last' = NoResp
               /\ UNCHANGED issued
          ELSE IF userModel = "User.ts"
          THEN \* updateUser(user.id, {name, picture, verified})
               /\ pc' = [pc EXCEPT ![p] = "uu_read"]
               /\ req' = [req EXCEPT ![p] =
                    [op |-> E.entry, profile |-> profile, before |-> users,
                     branch |-> "googleId",
                     matched |-> user.id, user |-> user, caller |-> "refresh",
                     id |-> user.id,
                     updateData |-> [name |-> profile.name, picture |-> profile.picture,
                                     verified |-> profile.verified]]]
               /\ last' = NoResp
               /\ UNCHANGED issued
          ELSE \* part_000: return user
               LoginFinish(p, r, user, "none")
  /\ UNCHANGED <<configVars, taskVars, clock, users, nextUserId, userModel>>

\* second statement: findUserByEmail(googleProfile.email)
LoginEmail(p) ==
  /\ pc[p] = "login_email"
  /\ LET profile == req[p].profile
         user == findUserByEmail(users, profile.email)
         r == [op |-> req[p].op, profile |-> profile, before |-> req[p].before,
               branch |-> "email", matched |-> user.id, user |-> user]
     IN IF user = NoUser
        THEN \* createUser(...): its INSERT comes next; now is taken here
             /\ pc' = [pc EXCEPT ![p] = "login_create"]
             /\ req' = [req EXCEPT ![p] =
                  [op |-> req[p].op, profile |-> profile, before |-> req[p].before,
                   branch |-> "create", matched |-> 0, user |-> NoUser,
                   now |-> clock]]
             /\ last' = NoResp
             /\ UNCHANGED issued
        ELSE IF userModel = "User.ts"
        THEN \* UPDATE users SET googleId = ?, updatedAt = ? comes next
             /\ pc' = [pc EXCEPT ![p] = "login_link"]
             /\ req' = [req EXCEPT ![p] = r @@ [now |-> clock]]
             /\ last' = NoResp
             /\ UNCHANGED issued
        ELSE IF Falsy(user.googleId)
        THEN \* part_000: updateUser(user.id, {googleId, picture, verified})
             /\ pc' = [pc EXCEPT ![p] = "uu_read"]
             /\ req' = [req EXCEPT ![p] =
                  r @@ [caller |-> "link", id |-> user.id,
                        updateData |-> [googleId |-> profile.id, name |-> UNDEF,
                                        picture |-> profile.picture,
                                        verified |-> profile.verified]]]
             /\ last' = NoResp
             /\ UNCHANGED issued
        ELSE \* part_000: return user
             LoginFinish(p, r, user, "none")
  /\ UNCHANGED <<configVars, taskVars, clock, users, nextUserId, userModel>>

\* createUser: INSERT INTO users ...
LoginCreate(p, E) ==
  /\ pc[p] = "login_create"
  /\ nextUserId < E.maxUsers
  /\ LET profile == req[p].profile
         id == uuidv4(nextUserId)
         userData == [googleId |-> profile.id, email |-> profile.email,
                      name |-> profile.name, picture |-> profile.picture,
                      verified |-> profile.verified]
         row == createUserRow(userModel, id, userData, req[p].now)
         error == InsertUserError(users, row)
     IN /\ nextUserId' = id
        /\ users' = IF error = "none" THEN users \cup {row} ELSE users
        /\ LoginFinish(p, req[p],
                       IF error = "none"
                       THEN createUserResult(userModel, id, userData, req[p].now)
                       ELSE NoUser,
                       error)
  /\ UNCHANGED <<configVars, taskVars, clock, userModel>>

\* User.ts: UPDATE users SET googleId = ?, updatedAt = ? WHERE id = ?
LoginLink(p) ==
  /\ pc[p] = "login_link"
  /\ LET error == LinkUserError(users, req[p].matched, req[p].profile.id) IN
     IF error = "none"
     THEN /\ users' = LinkUserRows(users, req[p].matched, req[p].profile.id, req[p].now)
          /\ pc' = [pc EXCEPT ![p] = "login_link_read"]
          /\ last' = NoResp
          /\ UNCHANGED <<req, issued>>
     ELSE /\ LoginFinish(p, req[p], NoUser, error)
          /\ UNCHANGED users
  /\ UNCHANGED <<configVars, taskVars, clock, nextUserId, userModel>>

\* User.ts: return (await findUserById(user.id))!
LoginLinkRead(p) ==
  /\ pc[p] = "login_link_read"
  /\ LoginFinish(p, req[p], findUserById(users, req[p].matched), "none")
  /\ UNCHANGED <<configVars, taskVars, clock, users, nextUserId, userModel>>

----------------------------------------------------------------------------
(* updateUser(id, updateData), statement by statement, for its three callers: *)
(* "refresh" (User.ts, the googleId match), "link" (part_000, the email      *)
(* match) and "call" (a direct call)                                        *)

\* what the caller does with the value updateUser returned
UpdateUserReturn(p, returned) ==
  CASE req[p].caller = "refresh" ->
         \* return updatedUser || user
         LoginFinish(p, req[p], IF returned = NoUser THEN req[p].user ELSE returned,
                     "none")
    [] req[p].caller = "link" ->
         \* user = await updateUser(...); return user!
         LoginFinish(p, req[p], returned, "none")
    [] req[p].caller = "call" ->
         /\ Finish(p, [op |-> "updateUser", proc |-> p, id |-> req[p].id,
                       updateData |-> req[p].updateData, result |-> returned])
         /\ UNCHANGED issued

\* findUserById(id), the early returns, and the parameters of the UPDATE
UpdateUserRead(p) ==
  /\ pc[p] = "uu_read"
  /\ LET existingUser == findUserById(users, req[p].id) IN
     IF existingUser = NoUser
     THEN UpdateUserReturn(p, NoUser)
     ELSE IF ~HasUserUpdates(req[p].updateData)
     THEN UpdateUserReturn(p, existingUser)
     ELSE /\ pc' = [pc EXCEPT ![p] = "uu_write"]
          /\ req' = [req EXCEPT ![p] = req[p] @@ [now |-> clock]]
          /\ last' = NoResp
          /\ UNCHANGED issued
  /\ UNCHANGED <<configVars, taskVars, clock, users, nextUserId, userModel>>

\* UPDATE users SET ... WHERE id = ?
UpdateUserWrite(p) ==
  /\ pc[p] = "uu_write"
  /\ users' = UpdateUserRows(users, req[p].id, req[p].updateData, req[p].now)
  /\ pc' = [pc EXCEPT ![p] = "uu_reread"]
  /\ last' = NoResp
  /\ UNCHANGED <<configVars, taskVars, clock, req, nextUserId, issued, userModel>>

\* return findUserById(id)
UpdateUserReread(p) ==
  /\ pc[p] = "uu_reread"
  /\ UpdateUserReturn(p, findUserById(users, req[p].id))
  /\ UNCHANGED <<configVars, taskVars, clock, users, nextUserId, userModel>>

----------------------------------------------------------------------------
(* Direct calls of the user model, and the authenticateToken middleware *)

\* updateUser(id, updateData) called on its own
UpdateUserCall(p, E) ==
  /\ Idle(p)
  /\ \E id \in UserIdInputs(E), updateData \in E.userUpdates :
       /\ pc' = [pc EXCEPT ![p] = "uu_read"]
       /\ req' = [req EXCEPT ![p] = [op |-> "updateUser", caller |-> "call",
                                     id |-> id, updateData |-> updateData]]
       /\ last' = NoResp
  /\ UNCHANGED <<configVars, taskVars, clock, userVars>>

\* createUser(userData) called on its own
CreateUserCall(p, E) ==
  /\ Idle(p)
  /\ nextUserId < E.maxUsers
  /\ \E userData \in E.userInputs :
       LET id == uuidv4(nextUserId)
           row == createUserRow(userModel, id, userData, clock)
           error == InsertUserError(users, row)
       IN /\ nextUserId' = id
          /\ users' = IF error = "none" THEN users \cup {row} ELSE users
          /\ Finish(p, [op |-> "createUser", proc |-> p, userData |-> userData,
                        thrown |-> error,
                        result |-> IF error = "none"
                                   THEN createUserResult(userModel, id, userData, clock)
                                   ELSE NoUser])
  /\ UNCHANGED <<configVars, taskVars, clock, issued, userModel>>

\* deleteUser(id)
DeleteUserCall(p, E) ==
  /\ Idle(p)
  /\ \E id \in UserIdInputs(E) :
       /\ users' = DeleteUserRows(users, id)
       /\ Finish(p, [op |-> "deleteUser", proc |-> p, id |-> id,
                     result |-> (users' # users)])
  /\ UNCHANGED <<configVars, taskVars, clock, nextUserId, issued, userModel>>

\* the tokens a client can put in a header: those the server issued, and tokens
\* signed with another key, copied from those or made for an existing user
TokenInputs ==
  issued
    \cup {[t EXCEPT !.sig = "other"] : t \in issued}
    \cup {[generateToken(u, clock) EXCEPT !.sig = "other"] : u \in users}

\* the Authorization headers a client can write, as their space-separated
\* segments: none, "Bearer", "Bearer ", "Bearer garbage", "Bearer <token>",
\* and an issued token under another scheme word, alone, or followed by more
HeaderInputs ==
  {NoHeader, <<Word("Bearer")>>, <<Word("Bearer"), Word("")>>,
   <<Word("Bearer"), Word("garbage")>>}
    \cup {<<Word("Bearer"), t>> : t \in TokenInputs}
    \cup {<<Word("Basic"), t>> : t \in issued}
    \cup {<<t>> : t \in issued}
    \cup {<<Word("Bearer"), t, Word("x")>> : t \in issued}

\* a request through authenticateToken, with any header the client can write
Authenticate(p, E) ==
  /\ Idle(p)
  /\ \E header \in HeaderInputs :
       LET out == authenticateToken(header, users, clock) IN
       Finish(p, [op |-> "authenticate", proc |-> p, header |-> header,
                  status |-> out.status, next |-> out.next, user |-> out.user])
  /\ UNCHANGED <<configVars, taskVars, clock, userVars>>

----------------------------------------------------------------------------
(* Specifications of the user store and the token middleware.  E gives the  *)
(* input sets and bounds of a specification.                                *)

InitUsers(E) ==
  /\ tasks = <<>>
  /\ creator = <<>>
  /\ nextTaskId = 0
  /\ clock = 0
  /\ pc = [p \in Procs |-> "idle"]
  /\ req = [p \in Procs |-> NoReq]
  /\ last = NoResp
  /\ users = {}
  /\ nextUserId = 0
  /\ issued = {}
  /\ userModel \in E.userModels
  /\ processEnv = DefaultProcessEnv
  /\ server = "running"

\* a login is taken up while fewer than E.maxTokens tokens are issued
LoginRequest(p, E) ==
  /\ Cardinality(issued) < E.maxTokens
  /\ LoginStart(p, E)

\* the token middleware: one Google account that logs in, is deleted and is
\* created again, while the days pass.  auth.ts imports the user model of
\* src/src/models/User.ts
AuthEnv ==
  [procs |-> {"p1"}, entry |-> "login", userModels |-> {"User.ts"}, maxUsers |-> MaxUsers,
   maxClock |-> MaxDays, tickSteps |-> {1}, maxTokens |-> MaxTokens,
   profiles |-> {[id |-> "g1", email |-> "e1", name |-> "n1", picture |-> UNDEF,
                  verified |-> "true"]},
   userInputs |-> {[googleId |-> "g1", email |-> "e1", name |-> "n1",
                    picture |-> UNDEF, verified |-> "true"]}]

NextAuth ==
  \/ \E p \in AuthEnv.procs : LoginRequest(p, AuthEnv)
  \/ \E p \in AuthEnv.procs : LoginEmail(p)
  \/ \E p \in AuthEnv.procs : LoginCreate(p, AuthEnv)
  \/ \E p \in AuthEnv.procs : UpdateUserRead(p)
  \/ \E p \in AuthEnv.procs : UpdateUserWrite(p)
  \/ \E p \in AuthEnv.procs : UpdateUserReread(p)
  \/ \E p \in AuthEnv.procs : CreateUserCall(p, AuthEnv)
  \/ \E p \in AuthEnv.procs : DeleteUserCall(p, AuthEnv)
  \/ \E p \in AuthEnv.procs : Authenticate(p, AuthEnv)
  \/ Tick(AuthEnv)

SpecAuth == InitUsers(AuthEnv) /\ [][NextAuth]_vars


----------------------------------------------------------------------------
(* Claims about the token middleware, checked under SpecAuth *)

\* the header is the scheme word Bearer followed by a single token
WellFormedHeader(header) ==
  /\ Len(header) = 2
  /\ header[1] = Word("Bearer")
  /\ (IsJwt(header[2]) \/ header[2].word \notin {UNDEF, ""})

\* the header carries, as its second segment, a token signed by the server
CarriesServerToken(header) ==
  Len(header) >= 2 /\ IsJwt(header[2]) /\ header[2].sig = "server"

Rejected(resp) == resp.status = 401 /\ ~resp.next /\ resp.user = NoUser

\* C8: authenticateToken calls next and sets req.user only if the header
\* carries a token, the token is signed by the server and not expired, and its
\* userId is the id of a stored user (the user set on the request); a request
\* with no Authorization header, with a token signed by another key or with an
\* expired token gets 401, next is not called and req.user stays unset.
C8_AuthenticateGate ==
  last.op = "authenticate" =>
    LET header == last.header IN
    /\ last.next =>
         /\ Len(header) >= 2
         /\ IsJwt(header[2])
         /\ header[2].sig = "server"
         /\ clock < header[2].exp
         /\ \E u \in users : u.id = header[2].userId /\ last.user = mapRowToUser(u)
    /\ ~last.next => Rejected(last)
    /\ header = NoHeader => Rejected(last)
    /\ (Len(header) >= 2 /\ IsJwt(header[2]) /\ header[2].sig # "server")
         => Rejected(last)
    /\ (Len(header) >= 2 /\ IsJwt(header[2]) /\ clock >= header[2].exp)
         => Rejected(last)

\* an expired token of a user that still exists is answered with 401
C8_ExpiredTokenRejected ==
  /\ last.op = "authenticate"
  /\ WellFormedHeader(last.header)
  /\ CarriesServerToken(last.header)
  /\ clock >= last.header[2].exp
  /\ last.header[2].userId \in UserIds(users)
  /\ Rejected(last)

\* C9: authenticateToken answers 401 to every request whose Authorization
\* header is not the word Bearer followed by a single token, also when the
\* second segment of that header is a token that verifies.
C9_MalformedHeaderRejected ==
  (last.op = "authenticate" /\ ~WellFormedHeader(last.header)) => Rejected(last)

\* a header with another scheme word, or with a third segment, is let through
C9_MalformedHeaderPasses ==
  /\ last.op = "authenticate"
  /\ ~WellFormedHeader(last.header)
  /\ last.next
  /\ last.user # NoUser


\* C10: a token whose userId is the id of no stored user (its user was
\* deleted after the token was issued) is answered with 401 by every later
\* authenticateToken, also while the token still verifies, and no later step,
\* createUser and login included, stores a user with that id again.
C10_DeletedUserTokenStaysRejected ==
  [][\A t \in issued :
       t.userId \notin UserIds(users) =>
         /\ t.userId \notin UserIds(users')
         /\ (last'.op = "authenticate" /\ Len(last'.header) >= 2 /\ last'.header[2] = t)
              => Rejected(last')]_vars

\* the deleted user's token, still signed and unexpired, is rejected after the
\* same Google account has been created again under a new id
C10_TokenRejectedAfterRecreate ==
  /\ last.op = "authenticate"
  /\ WellFormedHeader(last.header)
  /\ last.header[2] \in issued
  /\ clock < last.header[2].exp
  /\ last.header[2].userId \notin UserIds(users)
  /\ \E u \in users : u.googleId = "g1" /\ u.email = last.header[2].email
  /\ Rejected(last)


----------------------------------------------------------------------------
(* Identity resolution, one call at a time: findOrCreateUserByGoogle called *)
(* on its own over a store that createUser and deleteUser fill and empty,    *)
(* within one tick of the clock                                              *)

ResolveEnv ==
  [procs |-> {"p1"}, entry |-> "resolve", userModels |-> {"User.ts", "part_000"},
   maxUsers |-> MaxUsers, maxClock |-> MaxClock, tickSteps |-> {1},
   maxTokens |-> MaxTokens,
   profiles |-> [id : {"g1", "g2"}, email : {"e1", "e2"}, name : {"n2"},
                 picture : {UNDEF, "p2"}, verified : {UNDEF, "true"}],
   userInputs |-> [googleId : {"", "g1"}, email : {"e1", "e2"}, name : {"n1"},
                   picture : {"p1"}, verified : {"false"}]]

NextResolve ==
  \/ \E p \in ResolveEnv.procs : LoginRequest(p, ResolveEnv)
  \/ \E p \in ResolveEnv.procs : LoginEmail(p)
  \/ \E p \in ResolveEnv.procs : LoginCreate(p, ResolveEnv)
  \/ \E p \in ResolveEnv.procs : LoginLink(p)
  \/ \E p \in ResolveEnv.procs : LoginLinkRead(p)
  \/ \E p \in ResolveEnv.procs : UpdateUserRead(p)
  \/ \E p \in ResolveEnv.procs : UpdateUserWrite(p)
  \/ \E p \in ResolveEnv.procs : UpdateUserReread(p)
  \/ \E p \in ResolveEnv.procs : CreateUserCall(p, ResolveEnv)
  \/ \E p \in ResolveEnv.procs : DeleteUserCall(p, ResolveEnv)

SpecResolve == InitUsers(ResolveEnv) /\ [][NextResolve]_vars


----------------------------------------------------------------------------
(* Claims about identity resolution, checked under SpecResolve.  A finished *)
(* call is last with op "resolve": its profile, the users table before the  *)
(* call, and what it returned or threw.                                     *)

Resolved == last.op = "resolve"

\* the users that had the profile's googleId, and the unlinked users that had
\* the profile's email, when the call began
GoogleIdMatches == {u \in last.before : u.googleId = last.profile.id}
UnlinkedEmailMatches ==
  {u \in last.before : u.email = last.profile.email /\ Falsy(u.googleId)}

\* a picture field agrees with the profile's: the same picture, or none
SamePicture(picture, incoming) ==
  IF incoming = UNDEF THEN picture \in {UNDEF, NULL} ELSE picture = incoming

\* C3: findOrCreateUserByGoogle with a profile whose id is the googleId of a
\* stored user returns that user (same id), throws nothing and adds no user,
\* whatever the profile's email is (another email than stored, or the email
\* of another user); the matched user keeps its googleId and its email.
C3_GoogleIdMatchReturnsThatUser ==
  (Resolved /\ GoogleIdMatches # {}) =>
    \A u \in GoogleIdMatches :
      /\ last.thrown = "none"
      /\ last.result # NoUser
      /\ last.result.id = u.id
      /\ last.result.googleId = u.googleId
      /\ UserIds(users) = UserIds(last.before)
      /\ Cardinality(users) = Cardinality(last.before)
      /\ \E v \in users : v.id = u.id /\ v.googleId = u.googleId /\ v.email = u.email

\* the profile's email is the email of another stored user, and the user with
\* the profile's googleId is the one returned
C3_MatchWithOtherUsersEmail ==
  /\ Resolved
  /\ \E u \in GoogleIdMatches :
       /\ last.profile.email # u.email
       /\ \E w \in last.before : w.id # u.id /\ w.email = last.profile.email
       /\ last.result # NoUser
       /\ last.result.id = u.id

\* C4: when the profile's id is the googleId of a stored user, the user
\* findOrCreateUserByGoogle returns and the row then stored both have the
\* profile's name, picture (none if the profile has none) and verified, and
\* every other row is as it was.
C4_MatchRefreshesProfileFields ==
  (Resolved /\ GoogleIdMatches # {}) =>
    \A u \in GoogleIdMatches :
      /\ last.result # NoUser
      /\ last.result.name = last.profile.name
      /\ SamePicture(last.result.picture, last.profile.picture)
      /\ last.result.verified = Truthy(last.profile.verified)
      /\ \E v \in users :
           /\ v.id = u.id
           /\ v.name = last.profile.name
           /\ SamePicture(v.picture, last.profile.picture)
           /\ v.verified = (IF Truthy(last.profile.verified) THEN 1 ELSE 0)
      /\ \A w \in users : w.id # u.id => w \in last.before

\* User.ts, a profile without picture: the stored picture is kept and returned
C4_StalePictureKept ==
  /\ Resolved
  /\ userModel = "User.ts"
  /\ last.profile.picture = UNDEF
  /\ \E u \in GoogleIdMatches :
       /\ last.result # NoUser
       /\ last.result.id = u.id
       /\ last.result.picture = "p1"
       /\ \E v \in users : v.id = u.id /\ v.picture = "p1"

----------------------------------------------------------------------------
(* The user store under concurrent requests: two handlers whose statements  *)
(* interleave, logging in through POST /api/auth/google and calling         *)
(* createUser, updateUser and deleteUser                                    *)

UsersEnv ==
  [procs |-> Procs, entry |-> "login", userModels |-> {"User.ts", "part_000"},
   maxUsers |-> MaxUsers, maxClock |-> MaxClock, tickSteps |-> {1},
   maxTokens |-> MaxTokens,
   profiles |-> [id : {"g1"}, email : {"e1", "e2"}, name : {"n2"},
                 picture : {UNDEF}, verified : {"true"}],
   userInputs |-> [googleId : {"", "g1"}, email : {"e1"}, name : {"n1"},
                   picture : {UNDEF}, verified : {"true"}],
   userUpdates |-> {[name |-> "n3", picture |-> UNDEF, verified |-> UNDEF]}]

NextUsers ==
  \/ \E p \in UsersEnv.procs : LoginRequest(p, UsersEnv)
  \/ \E p \in UsersEnv.procs : LoginEmail(p)
  \/ \E p \in UsersEnv.procs : LoginCreate(p, UsersEnv)
  \/ \E p \in UsersEnv.procs : LoginLink(p)
  \/ \E p \in UsersEnv.procs : LoginLinkRead(p)
  \/ \E p \in UsersEnv.procs : UpdateUserRead(p)
  \/ \E p \in UsersEnv.procs : UpdateUserWrite(p)
  \/ \E p \in UsersEnv.procs : UpdateUserReread(p)
  \/ \E p \in UsersEnv.procs : UpdateUserCall(p, UsersEnv)
  \/ \E p \in UsersEnv.procs : CreateUserCall(p, UsersEnv)
  \/ \E p \in UsersEnv.procs : DeleteUserCall(p, UsersEnv)

SpecUsers == InitUsers(UsersEnv) /\ [][NextUsers]_vars


----------------------------------------------------------------------------
(* Claims about the user store under concurrent requests, checked under     *)
(* SpecUsers                                                                *)

\* C6: whatever calls of findOrCreateUserByGoogle, createUser, updateUser and
\* deleteUser have run, and however their statements interleaved, no two
\* rows of the users table have the same googleId and no two have the same
\* email.
C6_UniqueGoogleIdAndEmail ==
  \A u \in users : \A v \in users :
    (u.googleId = v.googleId \/ u.email = v.email) => u = v

\* two users are stored, and an INSERT or a link that would have made a
\* second row with a stored googleId or email has just been refused
C6_DuplicateRefused ==
  /\ Cardinality(users) = 2
  /\ last.op \in {"login", "createUser"}
  /\ last.thrown = "SQLITE_CONSTRAINT_UNIQUE"

\* a login that found no user by googleId and none by email, and whose INSERT
\* the table refused because another call had stored the user meanwhile
LostCreateRace ==
  /\ last.op = "login"
  /\ last.branch = "create"
  /\ \A u \in last.before :
       u.googleId # last.profile.id /\ u.email # last.profile.email
  /\ last.thrown = "SQLITE_CONSTRAINT_UNIQUE"

\* C7: when two logins for the same new googleId both miss both lookups, one
\* user row is stored for that googleId, and the login whose INSERT is
\* refused answers with the conflict status 409, not with another error.
C7_LoserGetsConflict ==
  LostCreateRace =>
    /\ Cardinality({u \in users : u.googleId = last.profile.id}) <= 1
    /\ last.status = 409

\* the losing login is answered 401 while the row the winning login inserted
\* from the same profile (it has the profile's name) is stored, and the winner
\* got its token
C7_LoserGetsUnauthorized ==
  /\ LostCreateRace
  /\ Cardinality({u \in users : u.googleId = last.profile.id}) = 1
  /\ \E u \in users : \E t \in issued :
       /\ u.googleId = last.profile.id
       /\ u.email = last.profile.email
       /\ u.name = last.profile.name
       /\ u \notin last.before
       /\ t.userId = u.id
  /\ last.status = 401


----------------------------------------------------------------------------
(* optionalAuth: src/src/middleware/auth.ts.  storeError says whether the   *)
(* SELECT of findUserById fails for this request.                           *)

\* an optionalAuth that answers as authenticateToken does
optionalAuthRejecting(header, U, now, storeError) ==
  authenticateToken(header, U, now)

\* what optionalAuth does with a request: req.user set or not, then next();
\* whatever verifyToken or findUserById throws is caught and next() called
optionalAuth(header, U, now, storeError) ==
  LET token == HeaderToken(header)
      user == IF IsJwt(token) THEN findUserById(U, token.userId) ELSE NoUser
  IN IF TokenMissing(token)
     THEN [status |-> 0, message |-> "", next |-> TRUE, user |-> NoUser]
     ELSE IF ~VerifyOk(token, now)
     THEN [status |-> 0, message |-> "", next |-> TRUE, user |-> NoUser]
     ELSE IF storeError
     THEN [status |-> 0, message |-> "", next |-> TRUE, user |-> NoUser]
     ELSE [status |-> 0, message |-> "", next |-> TRUE, user |-> user]

\* the SELECT of findUserById runs, and so can fail, once the token verified
StoreOutcomes(header, now) ==
  IF VerifyOk(HeaderToken(header), now) THEN BOOLEAN ELSE {FALSE}

\* a request through optionalAuth, with any header the client can write
OptionalAuthenticate(p, E) ==
  /\ Idle(p)
  /\ \E header \in HeaderInputs : \E storeError \in StoreOutcomes(header, clock) :
       LET out == optionalAuth(header, users, clock, storeError) IN
       Finish(p, [op |-> "optionalAuth", proc |-> p, header |-> header,
                  storeError |-> storeError,
                  status |-> out.status, next |-> out.next, user |-> out.user])
  /\ UNCHANGED <<configVars, taskVars, clock, userVars>>

\* the routes behind optionalAuth: the same account, logins and deletions as
\* for authenticateToken, while the clock moves by the lifetime of a token
OptionalEnv == [AuthEnv EXCEPT !.tickSteps = {ExpiresInDays}]

NextOptional ==
  \/ \E p \in OptionalEnv.procs : LoginRequest(p, OptionalEnv)
  \/ \E p \in OptionalEnv.procs : LoginEmail(p)
  \/ \E p \in OptionalEnv.procs : LoginCreate(p, OptionalEnv)
  \/ \E p \in OptionalEnv.procs : UpdateUserRead(p)
  \/ \E p \in OptionalEnv.procs : UpdateUserWrite(p)
  \/ \E p \in OptionalEnv.procs : UpdateUserReread(p)
  \/ \E p \in OptionalEnv.procs : CreateUserCall(p, OptionalEnv)
  \/ \E p \in OptionalEnv.procs : DeleteUserCall(p, OptionalEnv)
  \/ \E p \in OptionalEnv.procs : OptionalAuthenticate(p, OptionalEnv)
  \/ Tick(OptionalEnv)

SpecOptional == InitUsers(OptionalEnv) /\ [][NextOptional]_vars

\* C11: optionalAuth calls next for every request and sends no response (no
\* 401): without header, with a malformed header, with a token that does not
\* verify or is expired, with the token of a deleted user, and when the user
\* lookup fails.  req.user is set exactly when the header carries a token,
\* the token is signed by the server and not expired, and the lookup of its
\* userId returns a stored user, which is then the user set.
C11_OptionalAuthNeverRejects ==
  last.op = "optionalAuth" =>
    LET header == last.header
        resolves == /\ Len(header) >= 2
                    /\ IsJwt(header[2])
                    /\ header[2].sig = "server"
                    /\ clock < header[2].exp
                    /\ ~last.storeError
                    /\ header[2].userId \in UserIds(users)
    IN /\ last.next
       /\ last.status # 401
       /\ last.status = 0
       /\ (last.user # NoUser) <=> resolves
       /\ resolves => \E u \in users :
                        u.id = header[2].userId /\ last.user = mapRowToUser(u)

\* the token of a deleted user, still verifying: the request goes on without
\* a user
C11_DeletedUserGoesOnWithoutUser ==
  /\ last.op = "optionalAuth"
  /\ Len(last.header) = 2
  /\ last.header[2] \in issued
  /\ clock < last.header[2].exp
  /\ last.header[2].userId \notin UserIds(users)
  /\ last.next
  /\ last.user = NoUser


----------------------------------------------------------------------------
(* The process and its tokens: start-up with a configuration, then          *)
(* generateToken and verifyToken called on their own                        *)

\* a start-up that serves requests whatever the configuration
StartupUnchecked(env) == "running"

\* start-up: without a signing secret the process fails with a configuration
\* error, otherwise it serves requests
StartupOutcome(env) == IF SecretSet(env) THEN "running" ELSE "failed"

Startup ==
  /\ server = "starting"
  /\ server' = StartupOutcome(processEnv)
  /\ last' = [op |-> "startup", outcome |-> server',
              error |-> IF server' = "failed" THEN "ConfigurationError" ELSE "none"]
  /\ UNCHANGED <<taskVars, clock, pc, req, userVars, processEnv>>

\* verifyToken: the payload jwt.verify returns, or Error('Invalid token') for
\* whatever jwt.verify throws
verifyToken(token, now) ==
  IF VerifyOk(token, now)
  THEN [userId |-> token.userId, email |-> token.email, iat |-> token.iat,
        exp |-> token.exp]
  ELSE [error |-> "Invalid token"]

\* generateToken(user) called on its own; jwt.sign throws without a secret
IssueToken(p, E) ==
  /\ Idle(p)
  /\ Cardinality(issued) < E.maxTokens
  /\ \E user \in E.tokenUsers :
       LET ok == SecretSet(processEnv)
           token == IF ok THEN generateToken(user, clock) ELSE Word(UNDEF)
       IN /\ issued' = IF ok THEN issued \cup {token} ELSE issued
          /\ Finish(p, [op |-> "generateToken", proc |-> p, user |-> user,
                        token |-> token,
                        thrown |-> IF ok THEN "none"
                                   ELSE "secretOrPrivateKey must have a value"])
  /\ UNCHANGED <<configVars, taskVars, clock, users, nextUserId, userModel>>

\* verifyToken(token) called on its own, with any token a client can send
VerifyTokenCall(p, E) ==
  /\ Idle(p)
  /\ \E token \in TokenInputs \cup {Word("garbage")} :
       Finish(p, [op |-> "verifyToken", proc |-> p, token |-> token,
                  result |-> verifyToken(token, clock)])
  /\ UNCHANGED <<configVars, taskVars, clock, userVars>>

\* the users tokens are issued for, and the configurations of the process
TokenEnv ==
  [procs |-> {"p1"}, maxClock |-> MaxDays + 1, tickSteps |-> {1},
   maxTokens |-> MaxTokens,
   tokenUsers |-> {[id |-> i, googleId |-> "g1", email |-> e, name |-> "n1",
                    picture |-> NULL, verified |-> TRUE, createdAt |-> 0,
                    updatedAt |-> 0] : i \in 1..MaxUsers, e \in {"e1", "e2"}},
   processEnvs |-> [JWT_SECRET : {"secret", UNDEF},
                    JWT_EXPIRES_IN : {UNDEF, "1d", "7d", "30d"}]]

InitTokens ==
  /\ tasks = <<>>
  /\ creator = <<>>
  /\ nextTaskId = 0
  /\ clock = 0
  /\ pc = [p \in Procs |-> "idle"]
  /\ req = [p \in Procs |-> NoReq]
  /\ last = NoResp
  /\ users = {}
  /\ nextUserId = 0
  /\ issued = {}
  /\ userModel = "User.ts"
  /\ processEnv \in TokenEnv.processEnvs
  /\ server = "starting"

NextTokens ==
  \/ Startup
  \/ \E p \in TokenEnv.procs : IssueToken(p, TokenEnv)
  \/ \E p \in TokenEnv.procs : VerifyTokenCall(p, TokenEnv)
  \/ Tick(TokenEnv)

SpecTokens == InitTokens /\ [][NextTokens]_vars


----------------------------------------------------------------------------
(* Claims about tokens and start-up, checked under SpecTokens *)

\* the days after issuance at which a token is tried
DaysAfter == 0..(ExpiresInDays + 2)

\* verifyToken returned the payload of a token issued for user
ReturnsSubject(result, user) ==
  /\ "error" \notin DOMAIN result
  /\ result.userId = user.id
  /\ result.email = user.email

InvalidTokenError(result) ==
  "error" \in DOMAIN result /\ result.error = "Invalid token"

\* a token just issued for a user verifies, with that user's id and email,
\* at every time less than 7 days later, and fails with 'Invalid token' at
\* every time more than 7 days later; and so does every verifyToken call made
\* on an issued token
SevenDayRoundTrip ==
  /\ (last.op = "generateToken" /\ last.thrown = "none") =>
       \A d \in DaysAfter :
         LET result == verifyToken(last.token, clock + d) IN
         /\ d < ExpiresInDays => ReturnsSubject(result, last.user)
         /\ d > ExpiresInDays => InvalidTokenError(result)
  /\ (last.op = "verifyToken" /\ last.token \in issued) =>
       /\ clock - last.token.iat < ExpiresInDays =>
            /\ "error" \notin DOMAIN last.result
            /\ last.result.userId = last.token.userId
            /\ last.result.email = last.token.email
       /\ clock - last.token.iat > ExpiresInDays => InvalidTokenError(last.result)

\* C12: for every user u, verifyToken(generateToken(u)) returns userId u.id
\* and email u.email at any time less than 7 days after the token was
\* issued, and throws 'Invalid token' at any time more than 7 days after.
C12_SevenDayRoundTrip == SevenDayRoundTrip

\* C12 as amended: the same, when JWT_EXPIRES_IN is unset or '7d'.
C12_DefaultLifetimeRoundTrip ==
  (Falsy(processEnv.JWT_EXPIRES_IN) \/ processEnv.JWT_EXPIRES_IN = "7d")
    => SevenDayRoundTrip

\* with JWT_EXPIRES_IN unset, a token issued on day 0 is refused on day 8
C12_ExpiredAfterEightDays ==
  /\ Falsy(processEnv.JWT_EXPIRES_IN)
  /\ last.op = "verifyToken"
  /\ last.token \in issued
  /\ last.token.iat = 0
  /\ clock = ExpiresInDays + 1
  /\ InvalidTokenError(last.result)


\* a request reached generateToken or verifyToken
TokenRequestServed == last.op \in {"generateToken", "verifyToken"}

----------------------------------------------------------------------------
(* The pagination helpers called on their own: src/unnamed/part_002.  A     *)
(* query value is the number Number() makes of it: an integer, or NaN for a *)
(* missing or non-numeric value.                                            *)

\* Number(query.page): missing or non-numeric, negative, 0, and pages
PageInputs == {NaN} \cup ((0 - MaxPage)..MaxPage)

\* Number(query.limit): missing or non-numeric, negative, 0, small sizes, and
\* sizes around DEFAULT_LIMIT and MAX_LIMIT, up to 10000
LimitInputs ==
  {NaN} \cup ((0 - MaxPageSize)..MaxPageSize)
    \cup {DEFAULT_LIMIT, MAX_LIMIT - 1, MAX_LIMIT, MAX_LIMIT + 1, 100 * MAX_LIMIT}

PaginationQueries ==
  [page : PageInputs, limit : LimitInputs, sortBy : {UNDEF}, sortOrder : {UNDEF, "desc"}]

\* normalizePaginationQuery(query); thrown is what it threw ("none": nothing)
NormalizeCall(p) ==
  /\ Idle(p)
  /\ \E query \in PaginationQueries :
       Finish(p, [op |-> "normalizePaginationQuery", proc |-> p, query |-> query,
                  thrown |-> "none", result |-> normalizePaginationQuery(query)])
  /\ UNCHANGED <<configVars, taskVars, clock, userVars>>

\* createPaginationMeta(page, limit, total), over small pages, sizes and
\* totals and over 25 items in pages of 10
MetaCall(p) ==
  /\ Idle(p)
  /\ \E page \in 1..MaxPage, limit \in (1..MaxPageSize) \cup {10},
        total \in (0..MaxTotal) \cup {25} :
       Finish(p, [op |-> "createPaginationMeta", proc |-> p, page |-> page,
                  limit |-> limit, total |-> total,
                  result |-> createPaginationMeta(page, limit, total)])
  /\ UNCHANGED <<configVars, taskVars, clock, userVars>>

NextPagination ==
  \/ \E p \in {"p1"} : NormalizeCall(p)
  \/ \E p \in {"p1"} : MetaCall(p)

SpecPagination == InitTasks /\ [][NextPagination]_vars

\* C14: normalizePaginationQuery returns limit 20 for every limit that is
\* missing, non-numeric or <= 0, returns limit 100 for every limit > 100, and
\* never throws.
C14_LimitDefaultAndCap ==
  last.op = "normalizePaginationQuery" =>
    /\ last.thrown = "none"
    /\ (last.query.limit = NaN \/ last.query.limit <= 0) => last.result.limit = 20
    /\ (last.query.limit # NaN /\ last.query.limit > 100) => last.result.limit = 100

\* a negative limit comes back as 1
C14_NegativeLimitBecomesOne ==
  /\ last.op = "normalizePaginationQuery"
  /\ last.query.limit # NaN
  /\ last.query.limit < 0
  /\ last.result.limit = 1

\* C15: normalizePaginationQuery returns page 1 for every page that is
\* missing, non-numeric or <= 0, and a page >= 1 for every input.
C15_PageAtLeastOne ==
  last.op = "normalizePaginationQuery" =>
    /\ (last.query.page = NaN \/ last.query.page <= 0) => last.result.page = 1
    /\ last.result.page # NaN
    /\ last.result.page >= 1
    /\ (last.query.page # NaN /\ last.query.page >= 1)
         => last.result.page = last.query.page

\* a negative page came back as page 1
C15_NegativePageBecomesOne ==
  /\ last.op = "normalizePaginationQuery"
  /\ last.query.page # NaN
  /\ last.query.page < 0
  /\ last.result.page = 1


\* n is the ceiling of total / limit: the least n with n * limit >= total
IsCeiling(n, total, limit) ==
  /\ n >= 0
  /\ n * limit >= total
  /\ (n - 1) * limit < total

\* C16: for page >= 1, limit >= 1 and total >= 0, createPaginationMeta
\* returns totalPages = ceil(total / limit), hasNextPage = (page <
\* totalPages), hasPrevPage = (page > 1), nextPage = page + 1 when
\* hasNextPage and no nextPage otherwise, prevPage = page - 1 when
\* hasPrevPage and no prevPage otherwise; total = 0 gives totalPages = 0 and
\* hasNextPage = false.
C16_PaginationMeta ==
  last.op = "createPaginationMeta" =>
    LET m == last.result IN
    /\ m.page = last.page /\ m.limit = last.limit /\ m.total = last.total
    /\ IsCeiling(m.totalPages, last.total, last.limit)
    /\ m.hasNextPage = (last.page < m.totalPages)
    /\ m.hasPrevPage = (last.page > 1)
    /\ m.nextPage = (IF m.hasNextPage THEN last.page + 1 ELSE NaN)
    /\ m.prevPage = (IF m.hasPrevPage THEN last.page - 1 ELSE NaN)
    /\ last.total = 0 => (m.totalPages = 0 /\ ~m.hasNextPage)

\* createPaginationMeta(3, 10, 25): three pages, a previous page 2, no next
C16_LastPartialPage ==
  /\ last.op = "createPaginationMeta"
  /\ last.page = 3 /\ last.limit = 10 /\ last.total = 25
  /\ last.result.totalPages = 3
  /\ ~last.result.hasNextPage
  /\ last.result.hasPrevPage
  /\ last.result.nextPage = NaN
  /\ last.result.prevPage = 2

----------------------------------------------------------------------------
(* The listing specification: one client, one handler, tasks that differ in *)
(* every column the filters and the ORDER BY read.                          *)

\* validateQuery(taskFiltersSchema): req.query = value, the defaults of
\* paginationSchema filled in for the keys the request left out (NaN and
\* UNDEF stand for a key that is absent)
taskFiltersSchema(query) ==
  [query EXCEPT !.page = IF query.page = NaN THEN 1 ELSE query.page,
                !.limit = IF query.limit = NaN THEN 20 ELSE query.limit,
                !.sortBy = IF query.sortBy = UNDEF THEN "createdAt" ELSE query.sortBy,
                !.sortOrder = IF query.sortOrder = UNDEF THEN "desc"
                              ELSE query.sortOrder]

ListCreateInputs ==
  { [title |-> "b", description |-> UNDEF, priority |-> UNDEF, dueDate |-> UNDEF],
    [title |-> "a", description |-> "", priority |-> "high",
     dueDate |-> "2024-01-01"] }

ListUpdateInputs == {[NoUpdate EXCEPT !.completed = "true"]}

\* requests that vary the filters, and some that also page and sort
ListFilterQueries ==
  [page : {NaN}, limit : {NaN}, sortBy : {UNDEF}, sortOrder : {UNDEF},
   completed : {UNDEF, "true", "false"}, priority : {UNDEF, "high"},
   dueDateFrom : {UNDEF, "2024-01-01", "2024-06-01"},
   dueDateTo : {UNDEF, "2024-06-01"}]
  \cup
  [page : {1, 2}, limit : {1}, sortBy : {"title"}, sortOrder : {"asc"},
   completed : {UNDEF, "false"}, priority : {UNDEF},
   dueDateFrom : {UNDEF}, dueDateTo : {UNDEF}]

ListEnv ==
  [requesters |-> {"A"}, procs |-> {"p1"},
   createInputs |-> ListCreateInputs,
   updateInputs |-> ListUpdateInputs,
   listQueries |-> {taskFiltersSchema(query) : query \in ListFilterQueries}]

NextList ==
  \/ \E p \in ListEnv.procs : PostTask(p, ListEnv)
  \/ \E p \in ListEnv.procs : ListTasks(p, ListEnv)
  \/ \E p \in ListEnv.procs : ListCount(p)
  \/ \E p \in ListEnv.procs : PutTask(p, ListEnv)
  \/ \E p \in ListEnv.procs : UpdateWrite(p)
  \/ \E p \in ListEnv.procs : UpdateReread(p)

SpecList == InitTasks /\ [][NextList]_vars

----------------------------------------------------------------------------
(* The sorting specification: tasks created at different times, listed in   *)
(* every order a request can ask for, and read back by id.                  *)

\* requests that vary the sort
ListSortQueries ==
  [page : {NaN}, limit : {NaN},
   sortBy : {UNDEF, "title", "dueDate", "bogus"}, sortOrder : {UNDEF, "asc"},
   completed : {UNDEF}, priority : {UNDEF},
   dueDateFrom : {UNDEF}, dueDateTo : {UNDEF}]

SortEnv ==
  [requesters |-> {"A"}, procs |-> {"p1"}, maxClock |-> MaxClock, tickSteps |-> {1},
   createInputs |-> ListCreateInputs,
   listQueries |-> {taskFiltersSchema(query) : query \in ListSortQueries}]

NextSort ==
  \/ \E p \in SortEnv.procs : PostTask(p, SortEnv)
  \/ \E p \in SortEnv.procs : GetTask(p, SortEnv)
  \/ \E p \in SortEnv.procs : ListTasks(p, SortEnv)
  \/ \E p \in SortEnv.procs : ListCount(p)
  \/ Tick(SortEnv)

SpecSort == InitTasks /\ [][NextSort]_vars

----------------------------------------------------------------------------
(* Claims about the filters of the listing *)

\* the task passes every filter the request carries
Satisfies(task, filters) ==
  /\ (filters.completed = "true" => task.completed)
  /\ (filters.completed = "false" => ~task.completed)
  /\ (filters.priority # UNDEF => task.priority = filters.priority)
  /\ (filters.dueDateFrom # UNDEF =>
        task.dueDate # NULL /\ DateRank(task.dueDate) >= DateRank(filters.dueDateFrom))
  /\ (filters.dueDateTo # UNDEF =>
        task.dueDate # NULL /\ DateRank(task.dueDate) <= DateRank(filters.dueDateTo))

StoredTasks == {mapRowToTask(tasks[i]) : i \in 1..Len(tasks)}

\* the page the request asks for holds the whole result
WholeResult(filters) == filters.page = 1 /\ filters.limit >= Len(tasks)

\* C17: list returns exactly the tasks that satisfy every filter that is
\* present (completed equal, priority equal, dueDate >= dueDateFrom, dueDate <=
\* dueDateTo): every returned task is a stored task that passes each present
\* filter, and when the page holds the whole result every stored task that
\* passes them is returned, once; an absent filter excludes nothing.
C17_ListReturnsExactlyMatching ==
  last.op = "findAllTasks" =>
    /\ \A i \in 1..Len(last.items) :
         last.items[i] \in StoredTasks /\ Satisfies(last.items[i], last.filters)
    /\ \A i, j \in 1..Len(last.items) : last.items[i].id = last.items[j].id => i = j
    /\ (WholeResult(last.filters) =>
          \A task \in StoredTasks :
            Satisfies(task, last.filters) => task \in Range(last.items))

\* two filters are present, the store holds a task that passes both and a task
\* that fails one, and the list returned the first alone
C17_FiltersKeepOneOfTwo ==
  /\ last.op = "findAllTasks"
  /\ last.filters.completed = "false"
  /\ last.filters.dueDateTo # UNDEF
  /\ Len(last.items) = 1
  /\ \E task \in StoredTasks : task.completed
  /\ \E task \in StoredTasks : ~task.completed /\ task.dueDate # NULL

----------------------------------------------------------------------------
(* Claims about the order of the listing *)

\* the items come in the order ORDER BY col dir gives the stored rows
OrderedBy(items, col, dir) ==
  \A i, j \in 1..Len(items) :
    i < j => ~Before(RowOf(tasks, items[j].id), RowOf(tasks, items[i].id), col, dir)

\* C18: when the requested sort field is absent or not in the task allow-list,
\* list orders its result by createdAt; when it is in the allow-list, list
\* orders by exactly that field.
C18_SortFieldFallsBackToCreatedAt ==
  last.op = "findAllTasks" =>
    OrderedBy(last.items,
              IF last.filters.sortBy \in Range(allowedSortFields)
              THEN last.filters.sortBy ELSE "createdAt",
              last.filters.sortOrder)

\* a request with a sort field outside the allow-list got the older task "b"
\* before the newer task "a" in a descending list: the order of the titles,
\* the reverse of the order of createdAt
C18_UnknownFieldOrdersByTitle ==
  /\ last.op = "findAllTasks"
  /\ last.filters.sortBy \notin Range(allowedSortFields)
  /\ last.filters.sortOrder = "desc"
  /\ Len(last.items) = 2
  /\ last.items[1].title = "b" /\ last.items[2].title = "a"
  /\ last.items[1].createdAt < last.items[2].createdAt
  /\ OrderedBy(last.items, allowedSortFields[1], "desc")
  /\ ~OrderedBy(last.items, "createdAt", "desc")

----------------------------------------------------------------------------
(* Claims about the count of the listing *)

\* the filters of a request, with no page and limit and with the given sort
Unpaginated(query, sortBy, sortOrder) ==
  [query EXCEPT !.page = NaN, !.limit = NaN, !.sortBy = sortBy,
                !.sortOrder = sortOrder]

\* C19: count(filters) equals the number of tasks list returns for the same
\* filters without pagination, whatever the sort and page parameters of the
\* request are, and is an integer (0 when no task matches).
C19_CountEqualsUnpaginatedList ==
  last.op = "list" =>
    /\ last.total \in Nat
    /\ \A sortBy \in Range(allowedSortFields) \cup {UNDEF}, sortOrder \in {"asc", "desc"} :
         last.total = Len(findAllTasks(tasks, Unpaginated(last.query, sortBy, sortOrder)))
    /\ ((\A i \in 1..Len(tasks) : ~Satisfies(mapRowToTask(tasks[i]), last.query))
          => last.total = 0)

\* a request for page 2 of one task per page, with a filter both stored tasks
\* pass, was answered with one item and a total of 2
C19_PagedListCountsAllMatches ==
  /\ last.op = "list"
  /\ last.query.page = 2 /\ last.query.limit = 1
  /\ last.query.completed = "false"
  /\ Len(last.items) = 1
  /\ last.total = 2

\* a filter that no stored task passes was answered with total 0
C19_NoMatchCountsZero ==
  /\ last.op = "list"
  /\ Len(tasks) > 0
  /\ last.query.completed = "true"
  /\ last.total = 0

----------------------------------------------------------------------------
(* Claims about the record createTask returns *)

\* C20: the record create returns equals, field for field, the record an
\* immediately following getById of its id returns, also when description or
\* dueDate was omitted or empty; it has completed = false, a priority, and id,
\* createdAt and updatedAt present.
C20_CreateThenGetByIdSame ==
  [][ (last.op = "create" /\ last'.op = "getById" /\ last'.id = last.id) =>
        /\ last'.status = 200
        /\ last'.task = last.task
        /\ last.task.completed = FALSE
        /\ last.task.priority \in {"low", "medium", "high"}
        /\ last.task.id \in 1..nextTaskId
        /\ last.task.createdAt \in 0..clock
        /\ last.task.updatedAt = last.task.createdAt ]_vars

\* create answered a request without description and dueDate with a record in
\* which both are undefined, and the stored task reads back with both null
C20_CreateReturnsUndefinedForNull ==
  /\ last.op = "create"
  /\ last.task.description = UNDEF
  /\ last.task.dueDate = UNDEF
  /\ findTaskById(tasks, last.id).description = NULL
  /\ findTaskById(tasks, last.id).dueDate = NULL

\* create answered a request with an empty description with the empty string,
\* and the stored task reads back with description null
C20_CreateReturnsEmptyForNull ==
  /\ last.op = "create"
  /\ last.task.description = ""
  /\ findTaskById(tasks, last.id).description = NULL

----------------------------------------------------------------------------
(* The update specification: one client, one handler, updates that supply   *)
(* different sets of fields or none.                                        *)

UpdateInputs ==
  { [NoUpdate EXCEPT !.title = "b", !.completed = "true",
                     !.dueDate = "2024-06-01"],
    [NoUpdate EXCEPT !.description = "", !.completed = "false",
                     !.priority = "low", !.dueDate = NULL] }

UpdateEnv ==
  [requesters |-> {"A"}, procs |-> {"p1"}, maxClock |-> MaxClock, tickSteps |-> {1},
   createInputs |-> TaskCreateInputs,
   updateInputs |-> UpdateInputs \cup {NoUpdate}]

NextUpdate ==
  \/ \E p \in UpdateEnv.procs : PostTask(p, UpdateEnv)
  \/ \E p \in UpdateEnv.procs : PutTask(p, UpdateEnv)
  \/ \E p \in UpdateEnv.procs : UpdateWrite(p)
  \/ \E p \in UpdateEnv.procs : UpdateReread(p)
  \/ Tick(UpdateEnv)

SpecUpdate == InitTasks /\ [][NextUpdate]_vars

----------------------------------------------------------------------------
(* Claims about updateTask *)

\* C21: update called with an empty set of fields on an existing task returns
\* the task's current state and changes nothing in the store, in particular
\* not updatedAt: it answers in the step of its read, and no UPDATE statement
\* is ever prepared for an empty set of fields.
C21_EmptyUpdateChangesNothing ==
  [][ /\ (pc' = pc /\ last'.op = "update" /\ last'.status = 200 =>
            /\ tasks' = tasks
            /\ last'.task = findTaskById(tasks, last'.id))
      /\ \A p \in Procs : pc'[p] = "upd_write" => req'[p].updateData # NoUpdate ]_vars

\* an update answered with a task that still has its first title and the
\* updatedAt of its creation, at a later time: the update had no fields
C21_EmptyUpdateKeptUpdatedAt ==
  /\ last.op = "update"
  /\ last.status = 200
  /\ last.task.title = "a"
  /\ last.task.updatedAt = last.task.createdAt
  /\ clock > last.task.updatedAt
  /\ last.task = findTaskById(tasks, last.id)

\* the column of the row after the UPDATE: the supplied value, or the value the
\* row had
SetOrKept(supplied, new, old) ==
  IF supplied # UNDEF THEN new = supplied ELSE new = old

\* C22: update with a non-empty set of fields on an existing task sets exactly
\* the supplied fields to the supplied values, refreshes updatedAt, and leaves
\* id, owner, createdAt, every non-supplied field and every other task
\* unchanged, and answers with the stored task; for an id with no matching row
\* it returns null and changes nothing.
C22_UpdateSetsExactlySupplied ==
  [][ /\ \A p \in Procs :
           (pc[p] = "upd_write" /\ pc'[p] = "upd_reread") =>
             LET u == req[p].updateData IN
             /\ Len(tasks') = Len(tasks)
             /\ creator' = creator
             /\ \A i \in 1..Len(tasks) :
                  IF tasks[i].id = req[p].id
                  THEN /\ tasks'[i].id = tasks[i].id
                       /\ tasks'[i].createdAt = tasks[i].createdAt
                       /\ tasks'[i].updatedAt = req[p].now
                       /\ tasks'[i].updatedAt >= tasks[i].updatedAt
                       /\ SetOrKept(u.title, tasks'[i].title, tasks[i].title)
                       /\ SetOrKept(u.description, tasks'[i].description,
                                    tasks[i].description)
                       /\ SetOrKept(u.priority, tasks'[i].priority, tasks[i].priority)
                       /\ SetOrKept(u.dueDate, tasks'[i].dueDate, tasks[i].dueDate)
                       /\ (u.completed = "true" => tasks'[i].completed = 1)
                       /\ (u.completed = "false" => tasks'[i].completed = 0)
                       /\ (u.completed = UNDEF =>
                             tasks'[i].completed = tasks[i].completed)
                  ELSE tasks'[i] = tasks[i]
      /\ \A p \in Procs :
           (pc[p] = "upd_reread" /\ pc'[p] = "idle") =>
             /\ tasks' = tasks
             /\ last'.status = 200
             /\ last'.task = findTaskById(tasks, req[p].id)
      /\ (last'.op = "update" /\ last'.status = 404) =>
           /\ tasks' = tasks
           /\ last'.task = NoTask
           /\ ~HasRow(tasks, last'.id) ]_vars

\* both updates have been applied to one task while another task stayed as
\* created, and the answer of the second update is the stored task
C22_TwoUpdatesOnOneTask ==
  /\ last.op = "update"
  /\ last.status = 200
  /\ last.task = findTaskById(tasks, last.id)
  /\ last.task.title = "b"
  /\ last.task.description = ""
  /\ last.task.completed
  /\ last.task.priority = "low"
  /\ last.task.dueDate = "2024-06-01"
  /\ last.task.updatedAt > last.task.createdAt
  /\ \E i \in 1..Len(tasks) :
       /\ tasks[i].id # last.id
       /\ tasks[i].title = "a"
       /\ tasks[i].updatedAt = tasks[i].createdAt

----------------------------------------------------------------------------
(* Claims about deleteTask *)

\* C23: delete returns true exactly when a task with that id existed and was
\* removed by this call, and false, with the store unchanged, otherwise; after
\* a true result getById of the id finds nothing and the other tasks are
\* untouched; an id that has left the store never comes back, so of two
\* deletes of the same id exactly one returns true.
C23_DeleteReportsRemoval ==
  [][ /\ (last'.op = "delete" =>
            /\ last'.deleted = HasRow(tasks, last'.id)
            /\ findTaskById(tasks', last'.id) = NoTask
            /\ (~last'.deleted => tasks' = tasks)
            /\ Len(tasks') = Len(tasks) - (IF last'.deleted THEN 1 ELSE 0)
            /\ \A i \in 1..Len(tasks) :
                 tasks[i].id # last'.id => tasks[i] \in Range(tasks'))
      /\ \A id \in 1..nextTaskId : ~HasRow(tasks, id) => ~HasRow(tasks', id) ]_vars

\* a delete of an id that had been created, and deleted before, returned false
\* while another task is still stored
C23_SecondDeleteReturnsFalse ==
  /\ last.op = "delete"
  /\ ~last.deleted
  /\ last.id \in 1..nextTaskId
  /\ Len(tasks) = 1

----------------------------------------------------------------------------
(* The toggle specification: one client, one handler, so that no operation  *)
(* runs between the read and the write of a toggle.                         *)

ToggleEnv ==
  [requesters |-> {"A"}, procs |-> {"p1"}, maxClock |-> MaxClock, tickSteps |-> {1},
   createInputs |-> TaskCreateInputs]

NextToggle ==
  \/ \E p \in ToggleEnv.procs : PostTask(p, ToggleEnv)
  \/ \E p \in ToggleEnv.procs : ToggleTask(p, ToggleEnv)
  \/ \E p \in ToggleEnv.procs : ToggleUpdateRead(p)
  \/ \E p \in ToggleEnv.procs : UpdateWrite(p)
  \/ \E p \in ToggleEnv.procs : UpdateReread(p)
  \/ Tick(ToggleEnv)

SpecToggle == InitTasks /\ [][NextToggle]_vars


\* C24: with no concurrent operation on the task, toggle of an existing task
\* sets completed to the negation of its previous value, returns the updated
\* task, and changes no other field except updatedAt; toggle of an id that
\* does not exist reports not-found and changes nothing.
C24_ToggleNegatesCompleted ==
  [][ /\ \A p \in Procs :
           (pc[p] = "upd_write" /\ pc'[p] = "upd_reread" /\ req[p].op = "toggle") =>
             /\ Len(tasks') = Len(tasks)
             /\ \A i \in 1..Len(tasks) :
                  IF tasks[i].id = req[p].id
                  THEN /\ tasks'[i].completed = 1 - tasks[i].completed
                       /\ tasks'[i] = [tasks[i] EXCEPT
                                         !.completed = tasks'[i].completed,
                                         !.updatedAt = req[p].now]
                  ELSE tasks'[i] = tasks[i]
      /\ \A p \in Procs :
           (pc[p] = "upd_reread" /\ pc'[p] = "idle" /\ req[p].op = "toggle") =>
             /\ tasks' = tasks
             /\ last'.status = 200
             /\ last'.task = findTaskById(tasks, req[p].id)
      /\ (last'.op = "toggle" /\ last'.status # 200) =>
           /\ last'.status = 404
           /\ tasks' = tasks
           /\ ~HasRow(tasks, last'.id) ]_vars

\* a task toggled twice is answered as not completed again, with a later
\* updatedAt and nothing else changed
C24_ToggledBack ==
  /\ last.op = "toggle"
  /\ last.status = 200
  /\ ~last.task.completed
  /\ last.task.updatedAt > last.task.createdAt
  /\ last.task = [createTaskResult(last.id, CHOOSE d \in TaskCreateInputs : TRUE,
                                   last.task.createdAt)
                    EXCEPT !.description = NULL, !.dueDate = NULL,
                           !.updatedAt = last.task.updatedAt]

----------------------------------------------------------------------------
(* The race specification: two handlers in flight on the same tasks, with   *)
(* toggles, updates and deletes interleaved statement by statement.         *)

RaceEnv ==
  [requesters |-> {"A"}, procs |-> Procs,
   createInputs |-> TaskCreateInputs,
   updateInputs |-> {[NoUpdate EXCEPT !.title = "b"]}]

NextRace ==
  \/ \E p \in RaceEnv.procs : PostTask(p, RaceEnv)
  \/ \E p \in RaceEnv.procs : DeleteTask(p, RaceEnv)
  \/ \E p \in RaceEnv.procs : PutTask(p, RaceEnv)
  \/ \E p \in RaceEnv.procs : ToggleTask(p, RaceEnv)
  \/ \E p \in RaceEnv.procs : ToggleUpdateRead(p)
  \/ \E p \in RaceEnv.procs : UpdateWrite(p)
  \/ \E p \in RaceEnv.procs : UpdateReread(p)

SpecRace == InitTasks /\ [][NextRace]_vars

----------------------------------------------------------------------------
(* The cascade specification: users are created and deleted, and the users  *)
(* that exist create tasks.  The tasks table is the one createTask can      *)
(* insert into: the INSERT of Task.ts names no userId, which the table of   *)
(* src/unnamed/part_001 accepts.                                            *)

CascadeEnv ==
  [procs |-> {"p1"}, userModels |-> {"User.ts", "part_000"}, maxUsers |-> MaxUsers,
   userInputs |-> {[googleId |-> "g1", email |-> "e1", name |-> "n1",
                    picture |-> UNDEF, verified |-> "true"],
                   [googleId |-> "g2", email |-> "e2", name |-> "n2",
                    picture |-> UNDEF, verified |-> "true"]},
   createInputs |-> TaskCreateInputs]

\* POST /api/tasks sent by a user that exists
PostTaskAsUser(p, E) ==
  \E who \in UserIds(users) :
    PostTask(p, [requesters |-> {who}, createInputs |-> E.createInputs])

NextCascade ==
  \/ \E p \in CascadeEnv.procs : CreateUserCall(p, CascadeEnv)
  \/ \E p \in CascadeEnv.procs : DeleteUserCall(p, CascadeEnv)
  \/ \E p \in CascadeEnv.procs : PostTaskAsUser(p, CascadeEnv)

SpecCascade == InitUsers(CascadeEnv) /\ [][NextCascade]_vars

\* C25: after deleteUser(u) succeeds, no task owned by u remains in the store
\* (the deletion cascades to the owned tasks in the same step), and the tasks
\* of other users are untouched.
C25_DeleteUserCascadesToTasks ==
  [][ (last'.op = "deleteUser" /\ last'.result) =>
        /\ \A i \in 1..Len(tasks') : creator[tasks'[i].id] # last'.id
        /\ \A i \in 1..Len(tasks) :
             creator[tasks[i].id] # last'.id => tasks[i] \in Range(tasks') ]_vars

\* a user has been deleted and a task that user created is still stored
C25_TaskOutlivesItsUser ==
  /\ last.op = "deleteUser"
  /\ last.result
  /\ last.id \notin UserIds(users)
  /\ \E i \in 1..Len(tasks) : creator[tasks[i].id] = last.id

----------------------------------------------------------------------------
(* Claims about interleaved requests, checked under SpecRace *)

\* handler p has read the task of its request and has not yet answered
HasReadTask(p) == pc[p] \in {"upd_read", "upd_write", "upd_reread"}

\* C26: if a delete of task t takes effect between the read and the write of
\* an update or a toggle of t, that update or toggle reports not-found (a null
\* result, 404), never success with the data read before the delete and never
\* an internal error, and t remains deleted.
C26_DeletedInBetweenReportsNotFound ==
  [][ \A p \in Procs :
        (HasReadTask(p) /\ pc'[p] = "idle" /\ ~HasRow(tasks, req[p].id)) =>
          /\ last'.op = req[p].op
          /\ last'.status = 404
          /\ last'.task = NoTask
          /\ ~HasRow(tasks', req[p].id) ]_vars

\* a toggle whose task was deleted after the toggle had read it was answered
\* with an internal error
C26_ToggleOfDeletedTaskFails ==
  /\ last.op = "toggle"
  /\ last.status = 500
  /\ last.id \in 1..nextTaskId
  /\ ~HasRow(tasks, last.id)

\* an update whose task was deleted after the update had read it was answered
\* with not-found
C26_UpdateOfDeletedTaskNotFound ==
  /\ last.op = "update"
  /\ last.status = 404
  /\ last.id \in 1..nextTaskId
  /\ ~HasRow(tasks, last.id)

----------------------------------------------------------------------------
(* The statements of src/src/models/Task.ts as they are handed to            *)
(* db.execute: the text of the statement, as the pieces it is put together  *)
(* from, and the list of bound parameters.  A piece is either written in    *)
(* the program or the value of a ${...} in the template.                    *)

Written(text) == [kind |-> "written", text |-> text]
Interpolated(value) == [kind |-> "interpolated", text |-> value]
Statement(sql, args) == [sql |-> sql, args |-> args]

\* query += ` LIMIT ${filters.limit} OFFSET ${offset}`
LimitClause(filters) ==
  IF NumFalsy(filters.limit) THEN Statement(<<>>, <<>>)
  ELSE Statement(<<Written(" LIMIT "), Interpolated(ToString(filters.limit)),
                   Written(" OFFSET "),
                   Interpolated(ToString(calculateOffset(NumOr(filters.page, 1),
                                                         filters.limit)))>>,
                 <<>>)

\* the AND conditions findAllTasks and getTaskCount append, with their
\* parameters
WhereClause(filters) ==
  Statement(
    (IF filters.completed # UNDEF THEN <<Written(" AND completed = ?")>> ELSE <<>>)
      \o (IF ~Falsy(filters.priority) THEN <<Written(" AND priority = ?")>> ELSE <<>>)
      \o (IF ~Falsy(filters.dueDateFrom) THEN <<Written(" AND dueDate >= ?")>> ELSE <<>>)
      \o (IF ~Falsy(filters.dueDateTo) THEN <<Written(" AND dueDate <= ?")>> ELSE <<>>),
    (IF filters.completed # UNDEF
       THEN <<IF Truthy(filters.completed) THEN "1" ELSE "0">> ELSE <<>>)
      \o (IF ~Falsy(filters.priority) THEN <<filters.priority>> ELSE <<>>)
      \o (IF ~Falsy(filters.dueDateFrom) THEN <<filters.dueDateFrom>> ELSE <<>>)
      \o (IF ~Falsy(filters.dueDateTo) THEN <<filters.dueDateTo>> ELSE <<>>))

findAllTasksQuery(filters) ==
  LET where == WhereClause(filters)
      sort == parseSortParams(filters.sortBy, filters.sortOrder, allowedSortFields)
      limit == LimitClause(filters)
  IN Statement(<<Written("SELECT * FROM tasks WHERE 1=1")>> \o where.sql
                 \o <<Written(" ORDER BY "), Interpolated(sort.sortBy), Written(" "),
                      Interpolated(sort.sortOrder)>>
                 \o limit.sql,
               where.args \o limit.args)

getTaskCountQuery(filters) ==
  LET where == WhereClause(filters)
  IN Statement(<<Written("SELECT COUNT(*) as count FROM tasks WHERE 1=1")>>
                 \o where.sql,
               where.args)

findTaskByIdQuery(id) ==
  Statement(<<Written("SELECT * FROM tasks WHERE id = ?")>>, <<id>>)

createTaskQuery(id, taskData, now) ==
  Statement(<<Written("INSERT INTO tasks (id, title, description, priority, dueDate, createdAt, updatedAt) VALUES (?, ?, ?, ?, ?, ?, ?)")>>,
            <<id, taskData.title, JsOr(taskData.description, NULL),
              JsOr(taskData.priority, "medium"), JsOr(taskData.dueDate, NULL),
              now, now>>)

\* `UPDATE tasks SET ${updates.join(', ')} WHERE id = ?`: updates holds
\* strings written in the program, one per supplied field (the ', ' between
\* them is left out of the pieces)
updateTaskQuery(id, updateData, now) ==
  Statement(
    <<Written("UPDATE tasks SET ")>>
      \o (IF updateData.title # UNDEF THEN <<Written("title = ?")>> ELSE <<>>)
      \o (IF updateData.description # UNDEF THEN <<Written("description = ?")>>
          ELSE <<>>)
      \o (IF updateData.completed # UNDEF THEN <<Written("completed = ?")>> ELSE <<>>)
      \o (IF updateData.priority # UNDEF THEN <<Written("priority = ?")>> ELSE <<>>)
      \o (IF updateData.dueDate # UNDEF THEN <<Written("dueDate = ?")>> ELSE <<>>)
      \o <<Written("updatedAt = ?"), Written(" WHERE id = ?")>>,
    (IF updateData.title # UNDEF THEN <<updateData.title>> ELSE <<>>)
      \o (IF updateData.description # UNDEF THEN <<updateData.description>> ELSE <<>>)
      \o (IF updateData.completed # UNDEF
            THEN <<IF Truthy(updateData.completed) THEN "1" ELSE "0">> ELSE <<>>)
      \o (IF updateData.priority # UNDEF THEN <<updateData.priority>> ELSE <<>>)
      \o (IF updateData.dueDate # UNDEF THEN <<updateData.dueDate>> ELSE <<>>)
      \o <<now, id>>)

deleteTaskQuery(id) ==
  Statement(<<Written("DELETE FROM tasks WHERE id = ?")>>, <<id>>)


\* text a caller can send where an id, a sort field or a sort order is read
CallerIds == {"1", "1' OR '1'='1"}
CallerSortFields == {UNDEF, "title", "createdAt", "title; DROP TABLE tasks"}
CallerSortOrders == {UNDEF, "asc", "desc", "desc; DROP TABLE tasks"}

\* the filters findAllTasks is called with: those of GET /, normalised, and
\* calls without a limit
StatementFilters ==
  LET queries == [page : {NaN, 2}, limit : {NaN, 1, 20},
                  sortBy : CallerSortFields, sortOrder : CallerSortOrders,
                  completed : {UNDEF, "false"}, priority : {UNDEF, "high"},
                  dueDateFrom : {UNDEF}, dueDateTo : {UNDEF, "2024-06-01"}]
      spread(query) ==
        LET pagination == normalizePaginationQuery(query)
        IN [query EXCEPT !.page = pagination.page, !.limit = pagination.limit,
                         !.sortBy = pagination.sortBy,
                         !.sortOrder = pagination.sortOrder]
  IN {spread(query) : query \in queries} \cup {query \in queries : query.limit = NaN}

StatementAnswer(p, fn, statement) ==
  /\ Finish(p, [op |-> "statement", fn |-> fn, sql |-> statement.sql,
                args |-> statement.args])
  /\ UNCHANGED <<configVars, taskVars, clock, userVars>>

FindAllTasksStatement(p) ==
  /\ Idle(p)
  /\ \E filters \in StatementFilters :
       StatementAnswer(p, "findAllTasks", findAllTasksQuery(filters))

GetTaskCountStatement(p) ==
  /\ Idle(p)
  /\ \E filters \in StatementFilters :
       StatementAnswer(p, "getTaskCount", getTaskCountQuery(filters))

FindTaskByIdStatement(p) ==
  /\ Idle(p)
  /\ \E id \in CallerIds : StatementAnswer(p, "findTaskById", findTaskByIdQuery(id))

CreateTaskStatement(p) ==
  /\ Idle(p)
  /\ \E taskData \in ListCreateInputs :
       StatementAnswer(p, "createTask", createTaskQuery("1", taskData, "now"))

UpdateTaskStatement(p) ==
  /\ Idle(p)
  /\ \E id \in CallerIds, updateData \in UpdateInputs :
       StatementAnswer(p, "updateTask", updateTaskQuery(id, updateData, "now"))

DeleteTaskStatement(p) ==
  /\ Idle(p)
  /\ \E id \in CallerIds : StatementAnswer(p, "deleteTask", deleteTaskQuery(id))

NextStatements ==
  \/ \E p \in {"p1"} : FindAllTasksStatement(p)
  \/ \E p \in {"p1"} : GetTaskCountStatement(p)
  \/ \E p \in {"p1"} : FindTaskByIdStatement(p)
  \/ \E p \in {"p1"} : CreateTaskStatement(p)
  \/ \E p \in {"p1"} : UpdateTaskStatement(p)
  \/ \E p \in {"p1"} : DeleteTaskStatement(p)

SpecStatements == InitTasks /\ [][NextStatements]_vars

\* C27: in every statement built by list, count, getById, create, update and
\* delete, the only text put into the statement from outside the program is
\* an allow-listed sort column and the keyword asc or desc; every other
\* caller-supplied value, page and limit included, is a bound parameter.
C27_OnlySortTextInterpolated ==
  last.op = "statement" =>
    \A i \in 1..Len(last.sql) :
      last.sql[i].kind = "interpolated" =>
        last.sql[i].text \in Range(allowedSortFields) \cup {"asc", "desc"}

\* a list statement carries its limit and its offset in the text, and binds
\* no parameter for them
C27_LimitWrittenIntoStatement ==
  /\ last.op = "statement"
  /\ last.fn = "findAllTasks"
  /\ \E i \in 1..Len(last.sql) :
       last.sql[i] = Interpolated("20") /\ last.sql[i + 2] = Interpolated("0")
  /\ last.args = <<>>

\* a hostile sort field and sort order were replaced by the first allowed
\* column and asc
C27_HostileSortReplaced ==
  /\ last.op = "statement"
  /\ last.fn = "findAllTasks"
  /\ Interpolated("title") \in Range(last.sql)
  /\ Interpolated("asc") \in Range(last.sql)

----------------------------------------------------------------------------
(* The paging specification: findAllTasks called with and without a limit   *)
(* on tasks created at different times.                                     *)

PagingFilters ==
  [page : {NaN, 1, 2, 3}, limit : {NaN, 1, 2},
   sortBy : {"title", "createdAt"}, sortOrder : {"asc", "desc"},
   completed : {UNDEF}, priority : {UNDEF, "high"},
   dueDateFrom : {UNDEF}, dueDateTo : {UNDEF}]

PagingEnv ==
  [requesters |-> {"A"}, procs |-> {"p1"}, maxClock |-> MaxClock, tickSteps |-> {1},
   createInputs |-> ListCreateInputs]

\* findAllTasks(filters), called on its own
FindAllTasksCall(p) ==
  /\ Idle(p)
  /\ \E filters \in PagingFilters :
       Finish(p, [op |-> "findAllTasks", who |-> "A", filters |-> filters,
                  items |-> findAllTasks(tasks, filters)])
  /\ UNCHANGED <<configVars, taskVars, clock, userVars>>

NextPaging ==
  \/ \E p \in PagingEnv.procs : PostTask(p, PagingEnv)
  \/ \E p \in PagingEnv.procs : FindAllTasksCall(p)
  \/ Tick(PagingEnv)

SpecPaging == InitTasks /\ [][NextPaging]_vars

\* the filtered, sorted sequence the call pages through
WholeSequence(filters) ==
  LET sort == parseSortParams(filters.sortBy, filters.sortOrder, allowedSortFields)
  IN MapRows(OrderBy(SelectRows(tasks, filters), sort.sortBy, sort.sortOrder))

\* C28: list with limit L >= 1 and page p returns exactly the elements at
\* positions (p-1)*L up to (p-1)*L + L - 1 of the filtered, sorted task
\* sequence (at most L items, none past the end; page 1 when no page is
\* given); with no limit it returns the whole filtered, sorted sequence.
C28_PageIsSliceOfSequence ==
  last.op = "findAllTasks" =>
    LET whole == WholeSequence(last.filters)
        L == last.filters.limit
        first == (IF last.filters.page = NaN THEN 0 ELSE last.filters.page - 1) * L
    IN IF L = NaN
       THEN last.items = whole
       ELSE /\ Len(last.items) <= L
            /\ Len(last.items) = Max(0, Min(L, Len(whole) - first))
            /\ \A i \in 1..Len(last.items) : last.items[i] = whole[first + i]

\* page 2 of one task per page is the second of two stored tasks, in an order
\* that is not the order of creation
C28_SecondPageOfTwo ==
  /\ last.op = "findAllTasks"
  /\ last.filters.page = 2 /\ last.filters.limit = 1
  /\ last.filters.sortBy = "title" /\ last.filters.sortOrder = "asc"
  /\ Len(last.items) = 1
  /\ last.items[1].title = "b" /\ last.items[1].id = 1
  /\ Len(tasks) = 2

\* a page past the end is empty
C28_PagePastTheEnd ==
  /\ last.op = "findAllTasks"
  /\ last.filters.page = 3 /\ last.filters.limit = 2
  /\ Len(tasks) = 2
  /\ last.items = <<>>


----------------------------------------------------------------------------
(* The toggle race specification: two handlers that create tasks and toggle *)
(* them, and do nothing else.                                               *)

TogglePairEnv ==
  [requesters |-> {"A"}, procs |-> Procs, createInputs |-> TaskCreateInputs]

NextTogglePair ==
  \/ \E p \in TogglePairEnv.procs : PostTask(p, TogglePairEnv)
  \/ \E p \in TogglePairEnv.procs : ToggleTask(p, TogglePairEnv)
  \/ \E p \in TogglePairEnv.procs : ToggleUpdateRead(p)
  \/ \E p \in TogglePairEnv.procs : UpdateWrite(p)
  \/ \E p \in TogglePairEnv.procs : UpdateReread(p)

SpecTogglePair == InitTasks /\ [][NextTogglePair]_vars

\* C29: for every interleaving of two toggle requests on the same existing
\* task, with no other operation on it, after both have completed the task's
\* completed flag equals its value before the two requests: no toggle is lost.
\* Toggles being the only writes, that is: the UPDATE of every toggle negates
\* the flag the store holds when it runs (two negations give the value back; an
\* UPDATE that writes the value already stored is a lost toggle).
C29_NoToggleLost ==
  [][ \A p \in Procs :
        (pc[p] = "upd_write" /\ pc'[p] = "upd_reread" /\ req[p].op = "toggle") =>
          \A i \in 1..Len(tasks) :
            tasks[i].id = req[p].id => tasks'[i].completed = 1 - tasks[i].completed
    ]_vars

\* both handlers read the task as not completed, both have run their UPDATE
\* with completed = true, and the task is completed: two toggles, one change
C29_TwoTogglesOneChange ==
  /\ \A p \in Procs :
       /\ pc[p] = "upd_reread"
       /\ req[p].op = "toggle"
       /\ req[p].id = 1
       /\ req[p].updateData.completed = "true"
  /\ findTaskById(tasks, 1).completed

----------------------------------------------------------------------------
(* A claim about the googleId a user is linked to, checked under SpecResolve *)

\* the users that were linked to a googleId when the call began
LinkedBefore == {u \in last.before : ~Falsy(u.googleId)}

\* C30: findOrCreateUserByGoogle never replaces a googleId already stored on a
\* user: after a call, also one with a fresh googleId X and the email of a
\* user linked to another googleId Y, that user's googleId is still Y, and a
\* lookup by Y still finds that user.
C30_StoredGoogleIdKept ==
  Resolved =>
    \A u \in LinkedBefore :
      /\ \A v \in users : v.id = u.id => v.googleId = u.googleId
      /\ findUserByGoogleId(users, u.googleId) # NoUser
      /\ findUserByGoogleId(users, u.googleId).id = u.id

\* a call with the email of a user linked to g1 and the fresh googleId g2 has
\* returned that user linked to g2, and no user is linked to g1 any more
C30_LinkedUserRelinked ==
  /\ Resolved
  /\ last.profile.id = "g2"
  /\ last.thrown = "none"
  /\ \E u \in last.before :
       /\ u.googleId = "g1"
       /\ u.email = last.profile.email
       /\ last.result # NoUser
       /\ last.result.id = u.id
       /\ last.result.googleId = "g2"
       /\ \E v \in users : v.id = u.id /\ v.googleId = "g2"
  /\ findUserByGoogleId(users, "g1") = NoUser

====
